---- MODULE Spec2Model ----
(***************************************************************************)
(* State-machine model of the resource control plane:                      *)
(*   - the broker consumer loop (MQServer) and the lifecycle reconciler    *)
(*     (ResourceService.ConsumeMqMessage -> ResourceUsecase.CreateInstance *)
(*     -> resourceRepo / k8sRepo / auditRepo), specification Spec;         *)
(*   - the port-exposure engine (ResourceService.SetInstancePort ->        *)
(*     ResourceUsecase.SetInstancePort -> openPort / closePort),           *)
(*     specification SpecPort.                                             *)
(* Operators take and return a "world" record (the store tables and the    *)
(* cluster objects) so that nested calls with early returns read like the  *)
(* Go code they model.                                                     *)
(***************************************************************************)
EXTENDS Naturals, Integers, Sequences, FiniteSets, TLC

VARIABLES
    instance,        \* table instance: sequence of rows
    instance_spec,   \* table instance_spec: sequence of rows
    instance_logs,   \* table instance_logs (audit): sequence of rows
    namespaces,      \* cluster namespaces
    deployments,     \* cluster Deployments
    queue,           \* broker queue: sequence of message ids, head is delivered next
    msgs,            \* every published message: id -> [body, fate, deliveries, redelivered]
    last,            \* what the most recent processMessageBody run did
    instance_network,   \* table instance_network (bindings): sequence of rows
    services,           \* cluster Services in the tenant namespaces
    ingresses,          \* cluster Ingresses
    configMaps,         \* ingress-nginx tcp-services / udp-services: name -> Data
    lbPorts,            \* Spec.Ports of the ingress-nginx load-balancer Service
    nextAvailablePort,  \* k8sRepo.nextAvailablePort
    rpc,                \* the SetInstancePort request being served, element by element
    lastEl,             \* what the most recent element of a SetInstancePort batch did
    resp,               \* the most recent SetInstancePort reply
    served,             \* SetInstancePort requests and port configs received so far
    preOpen,            \* the L4 state before the latest element, if that element opened a TCP/UDP port
    handedOut,          \* the ports allocateExternalPort returned, in order of return
    goroutines,         \* concurrent calls of k8sRepo.CreateServiceForTCPUDP: where each one is
    entered,            \* concurrent calls of k8sRepo.CreateServiceForTCPUDP started so far
    execPc,             \* exec session: where each goroutine of the session is
    stream,             \* exec session: the client's side of the bidirectional stream
    inputChan,          \* exec session: ExecContainer's inputChan
    outputChan,         \* exec session: ExecContainer's outputChan
    errChan,            \* exec session: ExecContainer's errChan
    resizeChan,         \* exec session: terminalSizeQueue.resizeChan
    remote,             \* exec session: the cluster-side exec call and the process behind it
    execLocal,          \* exec session: local variables of the goroutines
    execLog,            \* exec session: the calls made and the bytes read so far
    fieldMask,          \* ListResources: an item, the request's field mask and the masked item
    resourceVersion,    \* metadata.resourceVersion of the shared ConfigMaps and the load-balancer Service
    mqServer,           \* MQServer.Start: where the consumer loop is and what it did
    amqpCh,             \* the broker channel s.ch with its consumer, delivery channel and close notification
    ctxDone,            \* the context passed to MQServer.Start is cancelled
    listener,           \* grpcquic.Listener: where Accept is, what it returned and closed
    clients             \* the QUIC clients of the listener: what each one has done

(***************************************************************************)
(* Bounds of the model.                                                    *)
(***************************************************************************)
MaxInstanceId == 2
MaxPublish == 2
MaxDeliveries == 2
MaxRequests == 2
MaxConfigs == 2
MaxElements == 3
MaxCalls == 3
ChanCap == 2
MaxPaths == 2
MaxClients == 2

(***************************************************************************)
(* Values.                                                                 *)
(***************************************************************************)
NoSpec == [cpu |-> 0, memory |-> 0, gpu |-> 0, present |-> FALSE]

SpecValues == { [cpu |-> 2, memory |-> 1024, gpu |-> 0, present |-> TRUE] }

UserOf(id) == IF id = 2 THEN "tenantB" ELSE "tenantA"

EventTypes == {"INSTANCE_CREATED", "INSTANCE_DELETED", "BOGUS"}

\* Only INSTANCE_CREATED reads the spec; the other types are published without.
Events == [event_type : {"INSTANCE_CREATED"}, instance_id : 0..MaxInstanceId,
           spec : SpecValues \cup {NoSpec}]
            \cup [event_type : EventTypes \ {"INSTANCE_CREATED"},
                  instance_id : 0..MaxInstanceId, spec : {NoSpec}]

\* A message body is the wire form of an event, or bytes that do not parse.
Bodies == [wire : {"proto"}, event : Events]
            \cup {[wire |-> "garbage", event |-> [event_type |-> "BOGUS", instance_id |-> 0, spec |-> NoSpec]]}

IsCreated(body) == body.wire = "proto" /\ body.event.event_type = "INSTANCE_CREATED"

ValidCreated(body) ==
    IsCreated(body) /\ body.event.instance_id # 0 /\ body.event.spec.present

ErrInstanceAlreadyExists == "instance already exists"

\* Outcomes of the external calls, which the environment decides. The handler is
\* sequential and returns at its first failing call, so at most one of its calls
\* fails in a run, and the consumer acknowledges only after all of them succeeded.
AllFaults == [store : {"ok", "err", "panic"}, specInsert : {"ok", "err"},
              ns : {"ok", "err"}, k8s : {"ok", "err", "panic"},
              audit : {"ok", "err"}, ack : {"ok", "err"}]

FailedCalls(f) == {c \in {"store", "specInsert", "ns", "k8s", "audit", "ack"} : f[c] # "ok"}

Faults == {f \in AllFaults : Cardinality(FailedCalls(f)) <= 1}

World == [instance |-> instance, instance_spec |-> instance_spec,
          instance_logs |-> instance_logs, namespaces |-> namespaces,
          deployments |-> deployments, instance_network |-> instance_network,
          services |-> services, ingresses |-> ingresses, configMaps |-> configMaps,
          lbPorts |-> lbPorts, nextAvailablePort |-> nextAvailablePort,
          handedOut |-> handedOut, calls |-> <<>>, failed |-> {}]

Called(w, name) == [w EXCEPT !.calls = Append(@, name)]

\* The deletion call named name returned an error other than not-found.
Failing(w, name) == [w EXCEPT !.failed = @ \cup {name}]

RowsOf(table, id) == {i \in 1..Len(table) : table[i].instance_id = id}

(***************************************************************************)
(* Instance store: resourceRepo.CreateInstance.                            *)
(***************************************************************************)
Transaction_NoRollback(before, after, err) == after

\* gorm's Transaction: commit the function's writes iff it returned nil.
Transaction(before, after, err) == IF err = "nil" THEN after ELSE before

\* tx.Create on a table with primary key instance_id: a duplicate key is
\* PostgreSQL error 23505.
PgInsert(table, row, fault) ==
    IF fault # "ok" THEN [err |-> "db error", table |-> table]
    ELSE IF RowsOf(table, row.instance_id) # {}
         THEN [err |-> "23505", table |-> table]
         ELSE [err |-> "nil", table |-> Append(table, row)]

MapPgError(err) == IF err = "23505" THEN ErrInstanceAlreadyExists ELSE err

RepoCreateInstance(w0, spec, f) ==
    LET w == Called(w0, "InstanceRepo.CreateInstance")
        instanceSpecDetail == [instance_id |-> spec.InstanceID, cpu |-> spec.CPU,
                               memory |-> spec.Memory, gpu |-> "NULL"]
        instanceRow == [instance_id |-> spec.InstanceID, user_id |-> spec.UserID,
                        status |-> "CREATING", deleted |-> FALSE]
        r1 == PgInsert(w.instance, instanceRow, f.store)
        r2 == PgInsert(w.instance_spec, instanceSpecDetail, f.specInsert)
        err == IF r1.err # "nil" THEN MapPgError(r1.err) ELSE MapPgError(r2.err)
        after == [w EXCEPT !.instance = r1.table,
                           !.instance_spec = IF r1.err = "nil" THEN r2.table ELSE @]
    IN IF f.store = "panic"
       THEN [err |-> "panic", w |-> w]
       ELSE [err |-> err, w |-> Transaction(w, after, err)]

(***************************************************************************)
(* Cluster adapter: k8sRepo.ensureNamespace, k8sRepo.CreateInstance.       *)
(***************************************************************************)
ensureNamespace(w, namespace, f) ==
    IF namespace \in w.namespaces THEN [err |-> "nil", w |-> w]
    ELSE IF f.ns = "err" THEN [err |-> "namespace error", w |-> w]
    ELSE [err |-> "nil", w |-> [w EXCEPT !.namespaces = @ \cup {namespace}]]

K8sCreateInstance(w0, spec, f) ==
    LET w == Called(w0, "K8sRepo.CreateInstance")
        ns == ensureNamespace(w, spec.UserID, f)
        cpuMilli == IF spec.CPU * 1000 <= 0 THEN 1000 ELSE spec.CPU * 1000
        memBytes == IF spec.Memory * 1024 * 1024 <= 0 THEN 512 * 1024 * 1024
                    ELSE spec.Memory * 1024 * 1024
        deployment == [namespace |-> spec.UserID, name |-> spec.InstanceID,
                       cpuMilli |-> cpuMilli, memBytes |-> memBytes,
                       gpu |-> IF spec.GPU > 0 THEN 1 ELSE 0]
        exists == \E d \in ns.w.deployments :
                      d.namespace = spec.UserID /\ d.name = spec.InstanceID
    IN IF f.k8s = "panic" THEN [err |-> "panic", w |-> w]
       ELSE IF ns.err # "nil" THEN [err |-> "failed to ensure namespace", w |-> ns.w]
       ELSE IF f.k8s = "err" \/ exists THEN [err |-> "k8s create failed", w |-> ns.w]
       ELSE [err |-> "nil", w |-> [ns.w EXCEPT !.deployments = @ \cup {deployment}]]

(***************************************************************************)
(* Audit store: auditRepo.CreateAudit.                                     *)
(***************************************************************************)
CreateAudit(w0, info, f) ==
    LET w == Called(w0, "AuditRepo.CreateAudit")
    IN IF f.audit = "err" THEN [err |-> "audit error", w |-> w]
       ELSE [err |-> "nil", w |-> [w EXCEPT !.instance_logs = Append(@, info)]]

(***************************************************************************)
(* Reconciler: ResourceUsecase.CreateInstance.                             *)
(***************************************************************************)
IsAlreadyExists_Never(err) == FALSE

IsAlreadyExists_Any(err) == TRUE

\* errors.Is(err, ErrInstanceAlreadyExists)
IsAlreadyExists(err) == err = ErrInstanceAlreadyExists

UcCreateInstance_AuditFirst(w, spec, f) ==
    LET r1 == RepoCreateInstance(w, spec, f)
        r3 == CreateAudit(r1.w, [instance_id |-> spec.InstanceID, log_type |-> "CREATE"], f)
        r2 == K8sCreateInstance(r3.w, spec, f)
    IN IF r1.err # "nil"
       THEN IF IsAlreadyExists(r1.err)
            THEN [err |-> "nil", storeErr |-> r1.err, w |-> r1.w]
            ELSE [err |-> r1.err, storeErr |-> r1.err, w |-> r1.w]
       ELSE IF r3.err # "nil" THEN [err |-> r3.err, storeErr |-> "nil", w |-> r3.w]
       ELSE [err |-> r2.err, storeErr |-> "nil", w |-> r2.w]

UcCreateInstance(w, spec, f) ==
    LET r1 == RepoCreateInstance(w, spec, f)
        r2 == K8sCreateInstance(r1.w, spec, f)
        r3 == CreateAudit(r2.w, [instance_id |-> spec.InstanceID, log_type |-> "CREATE"], f)
    IN IF r1.err # "nil"
       THEN IF IsAlreadyExists(r1.err)
            THEN [err |-> "nil", storeErr |-> r1.err, w |-> r1.w]
            ELSE [err |-> r1.err, storeErr |-> r1.err, w |-> r1.w]
       ELSE IF r2.err # "nil" THEN [err |-> r2.err, storeErr |-> "nil", w |-> r2.w]
       ELSE [err |-> r3.err, storeErr |-> "nil", w |-> r3.w]

(***************************************************************************)
(* ResourceService.ConsumeMqMessage.                                       *)
(***************************************************************************)
\* proto.Unmarshal: bytes that are no Event fail to parse.
Unmarshal(body) ==
    IF body.wire = "proto" THEN [err |-> "nil", event |-> body.event]
    ELSE [err |-> "proto: cannot parse", event |-> body.event]

ConsumeMqMessage(w, body, f) ==
    LET u == Unmarshal(body)
        event == u.event
        spec == [InstanceID |-> event.instance_id, UserID |-> UserOf(event.instance_id),
                 CPU |-> event.spec.cpu, Memory |-> event.spec.memory, GPU |-> event.spec.gpu]
        r == UcCreateInstance(w, spec, f)
    IN IF u.err # "nil" THEN [err |-> u.err, storeErr |-> "none", w |-> w]
       ELSE IF event.instance_id = 0
       THEN [err |-> "INVALID_ARGUMENT", storeErr |-> "none", w |-> w]
       ELSE IF event.event_type = "INSTANCE_CREATED"
       THEN IF ~event.spec.present
            THEN [err |-> "INVALID_ARGUMENT", storeErr |-> "none", w |-> w]
            ELSE r
       ELSE IF event.event_type = "INSTANCE_DELETED"
       THEN [err |-> "nil", storeErr |-> "none", w |-> w]
       ELSE [err |-> "UNKNOWN_EVENT_TYPE", storeErr |-> "none", w |-> w]

(***************************************************************************)
(* Broker consumer: MQServer.processMessageBody.                           *)
(***************************************************************************)
processMessageBody_NoReturn(err) ==
    IF err = "panic" THEN <<"rejectDrop">>
    ELSE IF err # "nil" THEN <<"rejectRequeue", "ack">>
    ELSE <<"ack">>

\* The settle operations the consumer performs for a handler outcome, in order.
processMessageBody(err) ==
    IF err = "panic" THEN <<"rejectDrop">>
    ELSE IF err # "nil" THEN <<"rejectRequeue">>
    ELSE <<"ack">>

\* What the broker does with the delivery: the first settle operation decides.
\* A requeued message goes back to its place at the head of the queue; an
\* acknowledgement that failed leaves the message unacknowledged, and the broker
\* delivers it again.
Fate(ops, f) ==
    IF ops = <<>> THEN "queued"
    ELSE IF ops[1] = "ack" THEN (IF f.ack = "ok" THEN "acked" ELSE "queued")
    ELSE IF ops[1] = "rejectRequeue" THEN "queued"
    ELSE "dropped"

(***************************************************************************)
(* Port-exposure engine: values.                                           *)
(***************************************************************************)
\* Configured external port range of the ingress controller (k8sRepo
\* tcpUDPPortRangeStart / tcpUDPPortRangeEnd); the model keeps the range short
\* so that exhaustion is reached.
TcpUDPPortRangeStart == 30000

TcpUDPPortRangeEnd == 30001

\* The elements a SetInstancePort batch may carry: ports outside 1..65535, an
\* unknown protocol, the empty protocol (defaults to HTTP) with and without a
\* domain, and valid TCP / UDP elements.
Configs == { [port |-> 0,     protocol |-> "TCP",  ingress_domain |-> ""],
             [port |-> 65536, protocol |-> "HTTP", ingress_domain |-> "apps.example.com"],
             [port |-> 80,    protocol |-> "SCTP", ingress_domain |-> ""],
             [port |-> 80,    protocol |-> "",     ingress_domain |-> ""],
             [port |-> 80,    protocol |-> "",     ingress_domain |-> "apps.example.com"],
             [port |-> 80,    protocol |-> "TCP",  ingress_domain |-> ""],
             [port |-> 443,   protocol |-> "UDP",  ingress_domain |-> ""] }

\* Call sites of the engine whose failure makes the operation return an error
\* (or fall back), and the deletion call sites whose failure callers ignore.
PrimarySites == {"GetResource", "GetNetworkBinding", "Services.Create",
                 "ConfigMaps.Get", "ConfigMaps.Update", "LBService.Get",
                 "LBService.Update", "GetIngressNginxLBIP", "Ingresses.Create",
                 "CreateNetworkBinding", "DeleteNetworkBinding", "CreateAudit"}

DeletionSites == {"Services.Delete", "Ingresses.Delete", "ConfigMaps.Get",
                  "ConfigMaps.NotFound", "ConfigMaps.Update", "LBService.Get",
                  "LBService.Update"}

\* The primary call sites after whose failure (or success) deletion calls follow.
FollowedByDeletion == {"ConfigMaps.Get", "ConfigMaps.Update", "LBService.Get",
                       "LBService.Update", "Ingresses.Create", "CreateNetworkBinding",
                       "DeleteNetworkBinding"}

\* The environment's choice for one element: at most one failing primary call
\* and at most one failing deletion call; a deletion call can only fail where
\* one is made.
PortFaults == {pf \in [fail : PrimarySites \cup {"none"}, del : DeletionSites \cup {"none"}] :
                  pf.del = "none" \/ pf.fail \in FollowedByDeletion \cup {"none"}}

\* Faults of the port calls when every call succeeds.
NoPortFault == [fail |-> "none", del |-> "none"]

\* Faults of the reconciler's calls when every call succeeds.
NoFault == [store |-> "ok", specInsert |-> "ok", ns |-> "ok", k8s |-> "ok",
            audit |-> "ok", ack |-> "ok"]

\* Pointers (*uint32, *string, *Resource, *NetworkBinding): nil is the empty
\* sequence, a set pointer the one-element sequence.
Nil == <<>>

Ptr(v) == <<v>>

\* strconv.FormatInt(instanceID, 10), strconv.Itoa, fmt's %d
FormatInt(n) == ToString(n)

generateServiceName(instanceID, port) == "instance-" \o instanceID \o "-" \o FormatInt(port)

generateIngressName(instanceID, port) == "ingress-" \o instanceID \o "-" \o FormatInt(port)

generateAccessURL(ingressDomain, namespace, instanceID, port) ==
    "http://" \o ingressDomain \o "/" \o namespace \o "/" \o instanceID \o "/" \o FormatInt(port)

(***************************************************************************)
(* Instance store and binding store: resourceRepo.GetResource, networkRepo.*)
(***************************************************************************)
GetResource(w0, instanceID, pf) ==
    LET w == Called(w0, "InstanceRepo.GetResource")
        rows == RowsOf(w.instance, instanceID)
        row == w.instance[CHOOSE i \in rows : \A j \in rows : i <= j]
    IN IF pf.fail = "GetResource" THEN [err |-> "db error", resource |-> Nil, w |-> w]
       ELSE IF rows = {} THEN [err |-> "nil", resource |-> Nil, w |-> w]
       ELSE [err |-> "nil", w |-> w,
             resource |-> Ptr([InstanceID |-> row.instance_id, UserID |-> row.user_id,
                               Type |-> row.status])]

BindingRows(table, instanceID, port) ==
    {i \in 1..Len(table) : table[i].instance_id = instanceID /\ table[i].port = port}

GetNetworkBinding(w0, instanceID, port, pf) ==
    LET w == Called(w0, "NetworkRepo.GetNetworkBinding")
        rows == BindingRows(w.instance_network, instanceID, port)
    IN IF pf.fail = "GetNetworkBinding" THEN [err |-> "db error", binding |-> Nil, w |-> w]
       ELSE IF rows = {} THEN [err |-> "nil", binding |-> Nil, w |-> w]
       ELSE [err |-> "nil", w |-> w,
             binding |-> Ptr(w.instance_network[CHOOSE i \in rows : TRUE])]

\* Create on the table with primary key (instance_id, port).
CreateNetworkBinding(w0, binding, pf) ==
    LET w == Called(w0, "NetworkRepo.CreateNetworkBinding")
    IN IF pf.fail = "CreateNetworkBinding" THEN [err |-> "db error", w |-> w]
       ELSE IF BindingRows(w.instance_network, binding.instance_id, binding.port) # {}
       THEN [err |-> "23505", w |-> w]
       ELSE [err |-> "nil", w |-> [w EXCEPT !.instance_network = Append(@, binding)]]

DeleteNetworkBinding(w0, instanceID, port, pf) ==
    LET w == Called(w0, "NetworkRepo.DeleteNetworkBinding")
        rows == BindingRows(w.instance_network, instanceID, port)
    IN IF pf.fail = "DeleteNetworkBinding" THEN [err |-> "db error", w |-> w]
       ELSE IF rows = {} THEN [err |-> "record not found", w |-> w]
       ELSE [err |-> "nil",
             w |-> [w EXCEPT !.instance_network = SelectSeq(@, LAMBDA row :
                        ~(row.instance_id = instanceID /\ row.port = port))]]

\* auditRepo.CreateAudit as the engine calls it; its error is discarded there.
PortAudit(w0, info, pf) ==
    LET w == Called(w0, "AuditRepo.CreateAudit")
    IN IF pf.fail = "CreateAudit" THEN [err |-> "audit error", w |-> w]
       ELSE [err |-> "nil", w |-> [w EXCEPT !.instance_logs = Append(@, info)]]

(***************************************************************************)
(* Cluster adapter for port exposure: k8sRepo and the cluster client.      *)
(***************************************************************************)
SameObject(o, namespace, name) == o.namespace = namespace /\ o.name = name

\* client.CoreV1().Services(namespace).Create / Delete
ServicesCreate(w0, service, pf) ==
    LET w == Called(w0, "Services.Create")
    IN IF pf.fail = "Services.Create" THEN [err |-> "create failed", w |-> w]
       ELSE IF \E s \in w.services : SameObject(s, service.namespace, service.name)
       THEN [err |-> "AlreadyExists", w |-> w]
       ELSE [err |-> "nil", w |-> [w EXCEPT !.services = @ \cup {service}]]

ServicesDelete(w0, namespace, name, pf) ==
    LET w == Called(w0, "Services.Delete")
        found == {s \in w.services : SameObject(s, namespace, name)}
    IN IF pf.del = "Services.Delete"
       THEN [err |-> "delete failed", w |-> Failing(w, "Services.Delete")]
       ELSE IF found = {} THEN [err |-> "NotFound", w |-> w]
       ELSE [err |-> "nil", w |-> [w EXCEPT !.services = @ \ found]]

\* client.NetworkingV1().Ingresses(namespace).Create / Delete
IngressesCreate(w0, ingress, pf) ==
    LET w == Called(w0, "Ingresses.Create")
    IN IF pf.fail = "Ingresses.Create" THEN [err |-> "create failed", w |-> w]
       ELSE IF \E g \in w.ingresses : SameObject(g, ingress.namespace, ingress.name)
       THEN [err |-> "AlreadyExists", w |-> w]
       ELSE [err |-> "nil", w |-> [w EXCEPT !.ingresses = @ \cup {ingress}]]

IngressesDelete(w0, namespace, name, pf) ==
    LET w == Called(w0, "Ingresses.Delete")
        found == {g \in w.ingresses : SameObject(g, namespace, name)}
    IN IF pf.del = "Ingresses.Delete"
       THEN [err |-> "delete failed", w |-> Failing(w, "Ingresses.Delete")]
       ELSE IF found = {} THEN [err |-> "NotFound", w |-> w]
       ELSE [err |-> "nil", w |-> [w EXCEPT !.ingresses = @ \ found]]

IsNotFound(err) == err = "NotFound"

DeleteService_Skip(w0, namespace, serviceName, pf) == [err |-> "nil", w |-> w0]

DeleteService(w0, namespace, serviceName, pf) ==
    LET r == ServicesDelete(Called(w0, "K8sRepo.DeleteService"), namespace, serviceName, pf)
    IN IF r.err # "nil" /\ ~IsNotFound(r.err)
       THEN [err |-> "failed to delete service", w |-> r.w]
       ELSE [err |-> "nil", w |-> r.w]

DeleteIngress(w0, namespace, ingressName, pf) ==
    LET r == IngressesDelete(Called(w0, "K8sRepo.DeleteIngress"), namespace, ingressName, pf)
    IN IF r.err # "nil" /\ ~IsNotFound(r.err)
       THEN [err |-> "failed to delete ingress", w |-> r.w]
       ELSE [err |-> "nil", w |-> r.w]

allocateExternalPort(w) ==
    IF w.nextAvailablePort > TcpUDPPortRangeEnd THEN [port |-> 0, w |-> w]
    ELSE [port |-> w.nextAvailablePort,
          w |-> [w EXCEPT !.nextAvailablePort = @ + 1,
                          !.handedOut = Append(@, w.nextAvailablePort)]]

\* cm.Data[key] = value
SetKey(data, key, value) == {e \in data : e.key # key} \cup {[key |-> key, value |-> value]}

\* delete(cm.Data, key)
DeleteKey(data, key) == {e \in data : e.key # key}

patchIngressNginxConfigMap(w0, configMapName, key, value, pf) ==
    LET w1 == Called(w0, "ConfigMaps.Get")
        w2 == Called(w1, "ConfigMaps.Update")
    IN IF pf.fail = "ConfigMaps.Get" THEN [err |-> "failed to get ConfigMap", w |-> w1]
       ELSE IF pf.fail = "ConfigMaps.Update"
       THEN [err |-> "failed to update ConfigMap", w |-> w2]
       ELSE [err |-> "nil",
             w |-> [w2 EXCEPT !.configMaps[configMapName] = SetKey(@, key, value)]]

HasPort(ports, externalPort, protocol) ==
    \E i \in 1..Len(ports) : ports[i].port = externalPort /\ ports[i].protocol = protocol

\* strings.ToLower on the protocol names
ToLower(protocol) ==
    IF protocol = "TCP" THEN "tcp" ELSE IF protocol = "UDP" THEN "udp" ELSE protocol

patchIngressNginxServicePort(w0, externalPort, protocol, pf) ==
    LET w1 == Called(w0, "LBService.Get")
        w2 == Called(w1, "LBService.Update")
        newPort == [name |-> ToLower(protocol) \o "-" \o FormatInt(externalPort),
                    protocol |-> IF protocol = "TCP" THEN "TCP" ELSE "UDP",
                    port |-> externalPort]
    IN IF pf.fail = "LBService.Get"
       THEN [err |-> "failed to get ingress-nginx Service", w |-> w1]
       ELSE IF HasPort(w1.lbPorts, externalPort, protocol) THEN [err |-> "nil", w |-> w1]
       ELSE IF pf.fail = "LBService.Update"
       THEN [err |-> "failed to update ingress-nginx Service", w |-> w2]
       ELSE [err |-> "nil", w |-> [w2 EXCEPT !.lbPorts = Append(@, newPort)]]

removeIngressNginxServicePort(w0, externalPort, protocol, pf) ==
    LET w1 == Called(w0, "LBService.Get")
        w2 == Called(w1, "LBService.Update")
        newPorts == SelectSeq(w1.lbPorts, LAMBDA p :
                        ~(p.port = externalPort /\ p.protocol = protocol))
    IN IF pf.del = "LBService.Get"
       THEN [err |-> "failed to get ingress-nginx Service",
             w |-> Failing(w1, "LBService.Get")]
       ELSE IF ~HasPort(w1.lbPorts, externalPort, protocol) THEN [err |-> "nil", w |-> w1]
       ELSE IF pf.del = "LBService.Update"
       THEN [err |-> "failed to update ingress-nginx Service",
             w |-> Failing(w2, "LBService.Update")]
       ELSE [err |-> "nil", w |-> [w2 EXCEPT !.lbPorts = newPorts]]

ConfigMapNameOf(protocol) ==
    IF protocol = "TCP" THEN "tcp-services"
    ELSE IF protocol = "UDP" THEN "udp-services" ELSE ""

\* A ConfigMap without entries comes back from the API with Data = nil.
DeleteTCPUDPConfigMapEntry(w0, protocol, externalPort, pf) ==
    LET configMapName == ConfigMapNameOf(protocol)
        w1 == Called(Called(w0, "K8sRepo.DeleteTCPUDPConfigMapEntry"), "ConfigMaps.Get")
        w2 == IF w1.configMaps[configMapName] = {} THEN w1
              ELSE Called(w1, "ConfigMaps.Update")
        w3 == [w2 EXCEPT !.configMaps[configMapName] = DeleteKey(@, FormatInt(externalPort))]
    IN IF configMapName = "" THEN [err |-> "invalid protocol", w |-> w0]
       ELSE IF pf.del = "ConfigMaps.NotFound"
       THEN [err |-> "nil", w |-> Failing(w1, "ConfigMaps.Get")]
       ELSE IF pf.del = "ConfigMaps.Get"
       THEN [err |-> "failed to get ConfigMap", w |-> Failing(w1, "ConfigMaps.Get")]
       ELSE IF w1.configMaps[configMapName] # {} /\ pf.del = "ConfigMaps.Update"
       THEN [err |-> "failed to update ConfigMap", w |-> Failing(w2, "ConfigMaps.Update")]
       ELSE [err |-> "nil",
             w |-> removeIngressNginxServicePort(w3, externalPort, protocol, pf).w]

GetIngressNginxLBIP(w0, pf) ==
    LET w == Called(w0, "K8sRepo.GetIngressNginxLBIP")
    IN IF pf.fail = "GetIngressNginxLBIP"
       THEN [err |-> "failed to get ingress-nginx service", ip |-> "", w |-> w]
       ELSE [err |-> "nil", ip |-> "203.0.113.10", w |-> w]

ClusterIPService(namespace, instanceID, port, protocol) ==
    [namespace |-> namespace, name |-> generateServiceName(instanceID, port),
     instance_id |-> instanceID, port |-> port, protocol |-> protocol]

\* After the Service was created: allocate, patch the ConfigMap, patch the
\* load-balancer Service, deleting what was made when a step fails.
ExposeTCPUDP(namespace, serviceName, port, protocol, a, pf) ==
    LET cm == patchIngressNginxConfigMap(a.w, ConfigMapNameOf(protocol), FormatInt(a.port),
                  namespace \o "/" \o serviceName \o ":" \o FormatInt(port), pf)
        lb == patchIngressNginxServicePort(cm.w, a.port, protocol, pf)
    IN IF a.port = 0
       THEN [err |-> "external port pool exhausted", serviceName |-> "", externalPort |-> 0,
             w |-> ServicesDelete(a.w, namespace, serviceName, pf).w]
       ELSE IF cm.err # "nil"
       THEN [err |-> "failed to patch ConfigMap", serviceName |-> "", externalPort |-> 0,
             w |-> ServicesDelete(cm.w, namespace, serviceName, pf).w]
       ELSE IF lb.err # "nil"
       THEN [err |-> "failed to patch ingress-nginx Service", serviceName |-> "",
             externalPort |-> 0,
             w |-> ServicesDelete(DeleteTCPUDPConfigMapEntry(lb.w, protocol, a.port, pf).w,
                                  namespace, serviceName, pf).w]
       ELSE [err |-> "nil", serviceName |-> serviceName, externalPort |-> a.port, w |-> lb.w]

CreateServiceForTCPUDP(w0, namespace, instanceID, port, protocol, pf) ==
    LET serviceName == generateServiceName(instanceID, port)
        w == Called(w0, "K8sRepo.CreateServiceForTCPUDP")
        c == ServicesCreate(w, ClusterIPService(namespace, instanceID, port, protocol), pf)
    IN IF protocol \notin {"TCP", "UDP"}
       THEN [err |-> "invalid protocol", serviceName |-> "", externalPort |-> 0, w |-> w]
       ELSE IF c.err # "nil"
       THEN [err |-> "failed to create service", serviceName |-> "", externalPort |-> 0,
             w |-> c.w]
       ELSE ExposeTCPUDP(namespace, serviceName, port, protocol,
                         allocateExternalPort(c.w), pf)

CreateServiceForHTTP(w0, namespace, instanceID, port, pf) ==
    LET w == Called(w0, "K8sRepo.CreateServiceForHTTP")
        c == ServicesCreate(w, ClusterIPService(namespace, instanceID, port, "TCP"), pf)
    IN IF c.err # "nil" THEN [err |-> "failed to create service", serviceName |-> "", w |-> c.w]
       ELSE [err |-> "nil", serviceName |-> generateServiceName(instanceID, port), w |-> c.w]

CreateIngress(w0, namespace, instanceID, port, serviceName, ingressDomain, pf) ==
    LET ingressName == generateIngressName(instanceID, port)
        accessURL == generateAccessURL(ingressDomain, namespace, instanceID, port)
        ingress == [namespace |-> namespace, name |-> ingressName, host |-> ingressDomain,
                    path |-> "/" \o namespace \o "/" \o instanceID \o "/" \o FormatInt(port),
                    service |-> serviceName, port |-> port]
        c == IngressesCreate(Called(w0, "K8sRepo.CreateIngress"), ingress, pf)
    IN IF c.err # "nil"
       THEN [err |-> "failed to create ingress", ingressName |-> "", accessURL |-> "", w |-> c.w]
       ELSE [err |-> "nil", ingressName |-> ingressName, accessURL |-> accessURL, w |-> c.w]

(***************************************************************************)
(* Port-exposure engine: ResourceUsecase.SetInstancePort, openPort,        *)
(* closePort.                                                              *)
(***************************************************************************)
\* openPort from the binding insert on: persist, and on failure delete what
\* the cluster calls made.
PersistBinding(w, instanceID, namespace, port, protocol, serviceName, externalPort, ingressName, accessURL, pf) ==
    LET binding == [instance_id |-> instanceID, port |-> port,
                    service_name |-> serviceName, service_port |-> port,
                    external_port |-> externalPort, ingress_name |-> ingressName,
                    protocol |-> protocol, access_url |-> accessURL, enabled |-> TRUE]
        c == CreateNetworkBinding(w, binding, pf)
        d1 == DeleteService(c.w, namespace, serviceName, pf)
        d2 == IF ingressName # Nil THEN DeleteIngress(d1.w, namespace, ingressName[1], pf)
              ELSE d1
        d3 == IF externalPort # Nil
              THEN DeleteTCPUDPConfigMapEntry(d2.w, protocol, externalPort[1], pf)
              ELSE d2
        a == PortAudit(c.w, [instance_id |-> instanceID, log_type |-> "PORT_OPENED",
                             message |-> "Port " \o FormatInt(port)
                                         \o " opened with protocol " \o protocol], pf)
    IN IF c.err # "nil" THEN [err |-> c.err, url |-> "", w |-> d3.w]
       ELSE [err |-> "nil", url |-> accessURL, w |-> a.w]

openTCPUDP_WithIngress(w, instanceID, instanceIDStr, namespace, port, protocol, pf) ==
    LET s == CreateServiceForTCPUDP(w, namespace, instanceIDStr, port, protocol, pf)
        ip == GetIngressNginxLBIP(s.w, pf)
        lbIP == IF ip.err # "nil" THEN "<ingress-lb-ip>" ELSE ip.ip
    IN IF s.err # "nil" THEN [err |-> s.err, url |-> "", w |-> s.w]
       ELSE PersistBinding(ip.w, instanceID, namespace, port, protocol, s.serviceName,
                           Ptr(s.externalPort), Ptr(s.serviceName),
                           lbIP \o ":" \o FormatInt(s.externalPort), pf)

openTCPUDP(w, instanceID, instanceIDStr, namespace, port, protocol, pf) ==
    LET s == CreateServiceForTCPUDP(w, namespace, instanceIDStr, port, protocol, pf)
        ip == GetIngressNginxLBIP(s.w, pf)
        lbIP == IF ip.err # "nil" THEN "<ingress-lb-ip>" ELSE ip.ip
    IN IF s.err # "nil" THEN [err |-> s.err, url |-> "", w |-> s.w]
       ELSE PersistBinding(ip.w, instanceID, namespace, port, protocol, s.serviceName,
                           Ptr(s.externalPort), Nil,
                           lbIP \o ":" \o FormatInt(s.externalPort), pf)

openHTTP(w, instanceID, instanceIDStr, namespace, port, protocol, ingressDomain, pf) ==
    LET s == CreateServiceForHTTP(w, namespace, instanceIDStr, port, pf)
        g == CreateIngress(s.w, namespace, instanceIDStr, port, s.serviceName,
                           ingressDomain, pf)
    IN IF s.err # "nil" THEN [err |-> s.err, url |-> "", w |-> s.w]
       ELSE IF g.err # "nil"
       THEN [err |-> g.err, url |-> "",
             w |-> DeleteService(g.w, namespace, s.serviceName, pf).w]
       ELSE PersistBinding(g.w, instanceID, namespace, port, protocol, s.serviceName,
                           Nil, Ptr(g.ingressName), g.accessURL, pf)

AlreadyOpen_Never(existing) == FALSE

\* existing != nil && existing.Enabled
AlreadyOpen(existing) == existing # Nil /\ existing[1].enabled

openPort_KeyedByProtocol(w, instanceID, instanceIDStr, namespace, port, protocol, ingressDomain, pf) ==
    LET e == GetNetworkBinding(w, instanceID, port, pf)
    IN IF e.err # "nil" THEN [err |-> e.err, url |-> "", w |-> e.w]
       ELSE IF AlreadyOpen(e.binding) /\ e.binding[1].protocol = protocol
       THEN [err |-> "nil", url |-> e.binding[1].access_url, w |-> e.w]
       ELSE IF protocol \in {"TCP", "UDP"}
       THEN openTCPUDP(e.w, instanceID, instanceIDStr, namespace, port, protocol, pf)
       ELSE openHTTP(e.w, instanceID, instanceIDStr, namespace, port, protocol,
                     ingressDomain, pf)

openPort(w, instanceID, instanceIDStr, namespace, port, protocol, ingressDomain, pf) ==
    LET e == GetNetworkBinding(w, instanceID, port, pf)
    IN IF e.err # "nil" THEN [err |-> e.err, url |-> "", w |-> e.w]
       ELSE IF AlreadyOpen(e.binding)
       THEN [err |-> "nil", url |-> e.binding[1].access_url, w |-> e.w]
       ELSE IF protocol \in {"TCP", "UDP"}
       THEN openTCPUDP(e.w, instanceID, instanceIDStr, namespace, port, protocol, pf)
       ELSE IF protocol = "HTTP"
       THEN openHTTP(e.w, instanceID, instanceIDStr, namespace, port, protocol,
                     ingressDomain, pf)
       ELSE [err |-> "invalid protocol, must be TCP/UDP/HTTP", url |-> "", w |-> e.w]

closeBinding_StopOnError(w, instanceID, namespace, port, binding, pf) ==
    LET d1 == DeleteService(w, namespace, binding.service_name, pf)
        d4 == DeleteNetworkBinding(d1.w, instanceID, port, pf)
    IN IF d1.err # "nil" THEN [err |-> d1.err, w |-> d1.w]
       ELSE [err |-> d4.err, w |-> d4.w]

\* closePort once the binding was found: the three deletions, whose errors are
\* only logged, then the row and the audit record.
closeBinding(w, instanceID, namespace, port, binding, pf) ==
    LET d1 == DeleteService(w, namespace, binding.service_name, pf)
        d2 == IF binding.ingress_name # Nil
              THEN DeleteIngress(d1.w, namespace, binding.ingress_name[1], pf)
              ELSE d1
        d3 == IF binding.external_port # Nil
              THEN DeleteTCPUDPConfigMapEntry(d2.w, binding.protocol,
                                              binding.external_port[1], pf)
              ELSE d2
        d4 == DeleteNetworkBinding(d3.w, instanceID, port, pf)
        a == PortAudit(d4.w, [instance_id |-> instanceID, log_type |-> "PORT_CLOSED",
                              message |-> "Port " \o FormatInt(port) \o " closed"], pf)
    IN IF d4.err # "nil" THEN [err |-> d4.err, w |-> d4.w]
       ELSE [err |-> "nil", w |-> a.w]

closeMissing_NotFound(w) == [err |-> "record not found", w |-> w]

\* closePort when binding == nil: already closed, return nil.
closeMissing(w) == [err |-> "nil", w |-> w]

closePort(w, instanceID, namespace, port, pf) ==
    LET e == GetNetworkBinding(w, instanceID, port, pf)
    IN IF e.err # "nil" THEN [err |-> e.err, w |-> e.w]
       ELSE IF e.binding = Nil THEN closeMissing(e.w)
       ELSE closeBinding(e.w, instanceID, namespace, port, e.binding[1], pf)

ResourceMissing_Never(resource) == FALSE

\* resource == nil
ResourceMissing(resource) == resource = Nil

UcSetInstancePort(w, instanceID, port, protocol, open, ingressDomain, pf) ==
    LET g == GetResource(w, instanceID, pf)
        namespace == IF g.resource = Nil THEN "" ELSE g.resource[1].UserID
        o == openPort(g.w, instanceID, FormatInt(instanceID), namespace, port, protocol,
                      ingressDomain, pf)
        c == closePort(g.w, instanceID, namespace, port, pf)
    IN IF g.err # "nil" THEN [err |-> g.err, url |-> "", w |-> g.w]
       ELSE IF ResourceMissing(g.resource)
       THEN [err |-> "instance not found", url |-> "", w |-> g.w]
       ELSE IF open THEN o
       ELSE [err |-> c.err, url |-> "", w |-> c.w]

(***************************************************************************)
(* ResourceService.SetInstancePort: the loop body for one port config and  *)
(* the response.                                                           *)
(***************************************************************************)
DefaultProtocol(protocol) == IF protocol = "" THEN "HTTP" ELSE protocol

ValidateConfig_Accept(config) == "nil"

\* The validation of one config: the error it is refused with, or "nil".
ValidateConfig(config) ==
    IF config.port = 0 \/ config.port > 65535
    THEN "invalid port number, must be 1-65535"
    ELSE IF DefaultProtocol(config.protocol) \notin {"TCP", "UDP", "HTTP"}
    THEN "invalid protocol, must be TCP, UDP or HTTP"
    ELSE IF DefaultProtocol(config.protocol) = "HTTP" /\ config.ingress_domain = ""
    THEN "ingress_domain is required for HTTP protocol"
    ELSE "nil"

PortResult(port, success, error, accessUrl) ==
    [port |-> port, success |-> success, error |-> error, access_url |-> accessUrl]

ProcessConfig(w, instanceId, open, config, v, pf) ==
    LET r == UcSetInstancePort(w, instanceId, config.port, DefaultProtocol(config.protocol),
                               open, config.ingress_domain, pf)
    IN IF v # "nil" THEN [result |-> PortResult(config.port, FALSE, v, ""), w |-> w]
       ELSE IF r.err # "nil"
       THEN [result |-> PortResult(config.port, FALSE, r.err, ""), w |-> r.w]
       ELSE [result |-> PortResult(config.port, TRUE, "", IF open THEN r.url ELSE ""),
             w |-> r.w]

AllSuccess_Some(successCount, n) == successCount > 0

\* allSuccess := successCount == len(req.PortConfigs)
AllSuccess(successCount, n) == successCount = n

Message(successCount, n) ==
    IF AllSuccess(successCount, n) THEN "success"
    ELSE FormatInt(successCount) \o "/" \o FormatInt(n) \o " ports processed successfully"

patchVars == <<resourceVersion>>

loopVars == <<mqServer, amqpCh, ctxDone>>

quicVars == <<listener, clients>>

vars == <<instance, instance_spec, instance_logs, namespaces, deployments,
          queue, msgs, last, instance_network, services, ingresses, configMaps,
          lbPorts, nextAvailablePort, rpc, lastEl, resp, served, preOpen,
          handedOut, goroutines, entered, execPc, stream, inputChan, outputChan,
          errChan, resizeChan, remote, execLocal, execLog, fieldMask, patchVars, loopVars, quicVars>>

execVars == <<execPc, stream, inputChan, outputChan, errChan, resizeChan, remote,
              execLocal, execLog>>

portVars == <<instance_network, services, ingresses, configMaps, lbPorts,
              nextAvailablePort, rpc, lastEl, resp, served, preOpen,
              handedOut, goroutines, entered, execPc, stream, inputChan, outputChan,
              errChan, resizeChan, remote, execLocal, execLog, fieldMask, patchVars, loopVars, quicVars>>

\* The lifecycle events received while ports are being exposed: instance 1 is
\* created, no other instance ever is.
CreatedBodies == {body \in Bodies : ValidCreated(body) /\ body.event.instance_id = 1}

Batches == UNION {[1..n -> Configs] : n \in 0..MaxConfigs}

Requests == [instance_id : 0..MaxInstanceId, open : BOOLEAN, port_configs : Batches]

NoRpc == [active |-> FALSE, instance_id |-> 0, open |-> FALSE, port_configs |-> <<>>,
          results |-> <<>>, successCount |-> 0, resolved |-> FALSE]

NoEl == [idx |-> 0, instance_id |-> 0, open |-> FALSE,
         config |-> [port |-> 0, protocol |-> "", ingress_domain |-> ""],
         result |-> PortResult(0, FALSE, "", ""), calls |-> <<>>, failed |-> {},
         rowExisted |-> FALSE, changed |-> FALSE]

\* No snapshot: the latest element did not open a TCP/UDP port.
NoSnapshot == [taken |-> FALSE, instance_id |-> 0, port |-> 0, protocol |-> "",
               configMaps |-> [name \in {"tcp-services", "udp-services"} |-> {}],
               lbPorts |-> <<>>]

\* The goroutines that serve concurrent SetInstancePort requests.
Goroutines == {"g1", "g2"}

\* A goroutine that is not inside CreateServiceForTCPUDP.
Idle == [pc |-> "idle", port |-> 0, protocol |-> "", read |-> 0, externalPort |-> 0,
         err |-> "", cmVersion |-> 0, lbVersion |-> 0]

\* No item is being masked.
NoMasking == [in |-> Nil, mask |-> Nil, out |-> Nil, err |-> "", applied |-> FALSE]

(***************************************************************************)
(* Values of an exec session.                                              *)
(***************************************************************************)
\* Client frames (ExecRequest): Init, Input, Resize.
InitFrame(id, command, tty) == [kind |-> "Init", instance_id |-> id, command |-> command, tty |-> tty, data |-> ""]

InputFrame(data) == [kind |-> "Input", instance_id |-> 0, command |-> <<>>, tty |-> FALSE, data |-> data]

ResizeFrame == [kind |-> "Resize", instance_id |-> 0, command |-> <<>>, tty |-> FALSE, data |-> "24x80"]

\* No frame: the client closed the stream before sending anything.
NoFrame == [kind |-> "", instance_id |-> 0, command |-> <<>>, tty |-> FALSE, data |-> ""]

\* A Go channel before make() and right after it: nothing buffered, not closed.
NoChan == [buf |-> <<>>, closed |-> FALSE]

\* The goroutines of a session before ExecContainer is called.
NotStarted == [handler |-> "recvInit", recv |-> "off", send |-> "off", handleInput |-> "off",
               stdout |-> "off", stderr |-> "off"]

NoStream == [script |-> <<>>, toSend |-> <<>>, halfClosed |-> FALSE, cancelled |-> FALSE,
             sent |-> <<>>, status |-> ""]

NoRemote == [stdout |-> <<>>, stderr |-> <<>>, stdin |-> <<>>, sizes |-> 0, started |-> FALSE]

NoLocals == [init |-> NoFrame, namespace |-> "", req |-> NoFrame, in |-> NoFrame,
             data |-> [s \in {"stdout", "stderr"} |-> ""], err |-> "nil"]

NoExecLog == [calls |-> <<>>, read |-> [s \in {"stdout", "stderr"} |-> <<>>],
              storeFailed |-> FALSE, panicked |-> FALSE, completion |-> <<>>]

\* MQServer.Start after Consume and NotifyClose returned: in the select of the loop.
Consuming == [pc |-> "select", current |-> 0, result |-> "", cause |-> "", trace |-> <<>>,
              stopped |-> FALSE]

\* s.ch after Qos and Consume: open, the consumer registered, nothing delivered.
OpenChannel == [open |-> TRUE, tagCancelled |-> FALSE, unacked |-> {}, deliveries |-> <<>>,
                deliveriesClosed |-> FALSE, notify |-> "none", delivered |-> <<>>]

\* The QUIC clients that connect to the listener.
QuicClients == 1..MaxClients

\* A client that has not connected yet.
Away == [phase |-> "away", stream |-> FALSE, silent |-> FALSE, gone |-> FALSE]

\* Listen(ql): the listener wraps an open quic.Listener; nobody has called Accept.
Listening == [pc |-> "idle", conn |-> 0, backlog |-> <<>>, open |-> TRUE, results |-> <<>>,
              closedWith |-> [c \in QuicClients |-> Nil]]

NoResp == [returned |-> "none", code |-> "", success |-> FALSE, results |-> <<>>,
           message |-> "", instance_id |-> 0, open |-> FALSE, port_configs |-> <<>>,
           resolved |-> FALSE]



NoRun == [id |-> 0, body |-> [wire |-> "garbage", event |-> [event_type |-> "BOGUS", instance_id |-> 0, spec |-> NoSpec]],
          err |-> "none", storeErr |-> "none", ops |-> <<>>, calls |-> <<>>,
          fate |-> "none", specInsertFailed |-> FALSE,
          storeTouched |-> FALSE, clusterTouched |-> FALSE,
          auditAppended |-> 0]

\* Everything but the ListResources item: nothing happened yet.
InitBase ==
    /\ instance = <<>>
    /\ instance_spec = <<>>
    /\ instance_logs = <<>>
    /\ namespaces = {}
    /\ deployments = {}
    /\ queue = <<>>
    /\ msgs = <<>>
    /\ last = NoRun
    /\ instance_network = <<>>
    /\ services = {}
    /\ ingresses = {}
    /\ configMaps = [name \in {"tcp-services", "udp-services"} |-> {}]
    /\ lbPorts = <<[name |-> "http", protocol |-> "TCP", port |-> 80]>>
    /\ nextAvailablePort = TcpUDPPortRangeStart
    /\ rpc = NoRpc
    /\ lastEl = NoEl
    /\ resp = NoResp
    /\ served = [requests |-> 0, elements |-> 0]
    /\ preOpen = NoSnapshot
    /\ handedOut = <<>>
    /\ goroutines = [p \in Goroutines |-> Idle]
    /\ entered = 0
    /\ resourceVersion = [configMaps |-> [name \in {"tcp-services", "udp-services"} |-> 0],
                          lbService |-> 0]
    /\ mqServer = Consuming
    /\ amqpCh = OpenChannel
    /\ ctxDone = FALSE
    /\ listener = Listening
    /\ clients = [c \in QuicClients |-> Away]
    /\ execPc = NotStarted
    /\ stream = NoStream
    /\ inputChan = NoChan
    /\ outputChan = NoChan
    /\ errChan = <<>>
    /\ resizeChan = NoChan
    /\ remote = NoRemote
    /\ execLocal = NoLocals
    /\ execLog = NoExecLog

Init ==
    /\ InitBase
    /\ fieldMask = NoMasking

\* A producer publishes an event to the durable queue.
Publish(body) ==
    /\ Len(msgs) < MaxPublish
    /\ msgs' = Append(msgs, [body |-> body, fate |-> "queued", deliveries |-> 0])
    /\ queue' = Append(queue, Len(msgs) + 1)
    /\ UNCHANGED <<instance, instance_spec, instance_logs, namespaces, deployments, last>>
    /\ UNCHANGED portVars

\* The state after one delivery of message id: the handler's result r, the
\* settle operations ops and what the broker did with the message.
Delivered(id, r, ops, fate, f) ==
    /\ instance' = r.w.instance
    /\ instance_spec' = r.w.instance_spec
    /\ instance_logs' = r.w.instance_logs
    /\ namespaces' = r.w.namespaces
    /\ deployments' = r.w.deployments
    /\ msgs' = [msgs EXCEPT ![id].fate = fate, ![id].deliveries = @ + 1]
    /\ queue' = IF fate = "queued" THEN queue ELSE Tail(queue)
    /\ last' = [id |-> id, body |-> msgs[id].body, err |-> r.err,
                storeErr |-> r.storeErr, ops |-> ops, calls |-> r.w.calls,
                fate |-> fate,
                specInsertFailed |-> (r.storeErr = "db error" /\ f.specInsert = "err"),
                storeTouched |-> (r.w.instance # instance \/ r.w.instance_spec # instance_spec),
                clusterTouched |-> (r.w.namespaces # namespaces \/ r.w.deployments # deployments),
                auditAppended |-> Len(r.w.instance_logs) - Len(instance_logs)]
    /\ UNCHANGED portVars

Settled(id, r, ops, f) == Delivered(id, r, ops, Fate(ops, f), f)

\* MQServer.Start's loop body for one delivery: processMessage on the head of
\* the queue (prefetch 1, one consumer), the handler and the settle.
ProcessMessage(f) ==
    /\ queue # <<>>
    /\ msgs[Head(queue)].deliveries < MaxDeliveries
    /\ Settled(Head(queue), ConsumeMqMessage(World, msgs[Head(queue)].body, f),
               processMessageBody(ConsumeMqMessage(World, msgs[Head(queue)].body, f).err), f)

Next ==
    \/ \E body \in Bodies : Publish(body)
    \/ \E f \in Faults : ProcessMessage(f)

Spec == Init /\ [][Next]_vars

(***************************************************************************)
(* The port-exposure engine as a state machine: SetInstancePort requests   *)
(* served one port config per step, while the reconciler creates instances.*)
(***************************************************************************)
\* The store and the cluster become what the world record w holds.
Becomes(w) ==
    /\ instance' = w.instance
    /\ instance_spec' = w.instance_spec
    /\ instance_logs' = w.instance_logs
    /\ namespaces' = w.namespaces
    /\ deployments' = w.deployments
    /\ instance_network' = w.instance_network
    /\ services' = w.services
    /\ ingresses' = w.ingresses
    /\ configMaps' = w.configMaps
    /\ lbPorts' = w.lbPorts
    /\ nextAvailablePort' = w.nextAvailablePort
    /\ handedOut' = w.handedOut

\* The consumer handles an INSTANCE_CREATED event with every call succeeding.
ConsumeCreated(body) ==
    /\ Becomes(ConsumeMqMessage(World, body, NoFault).w)
    /\ UNCHANGED <<queue, msgs, last, rpc, lastEl, resp, served, preOpen, goroutines, entered>>
    /\ UNCHANGED <<execVars, fieldMask, patchVars, loopVars, quicVars>>

\* ResourceService.SetInstancePort up to the loop: the request-level checks.
StartRequest(req) ==
    /\ ~rpc.active
    /\ served.requests < MaxRequests
    /\ served.elements + Len(req.port_configs) <= MaxElements
    /\ served' = [requests |-> served.requests + 1,
                  elements |-> served.elements + Len(req.port_configs)]
    /\ lastEl' = NoEl
    /\ IF req.instance_id = 0 \/ Len(req.port_configs) = 0
       THEN /\ rpc' = NoRpc
            /\ resp' = [NoResp EXCEPT !.returned = "error", !.code = "INVALID_ARGUMENT",
                                      !.message = IF req.instance_id = 0
                                                  THEN "instance_id is required"
                                                  ELSE "port_configs is required",
                                      !.instance_id = req.instance_id, !.open = req.open,
                                      !.port_configs = req.port_configs]
       ELSE /\ rpc' = [NoRpc EXCEPT !.active = TRUE, !.instance_id = req.instance_id,
                                    !.open = req.open, !.port_configs = req.port_configs]
            /\ resp' = NoResp
    /\ UNCHANGED <<instance, instance_spec, instance_logs, namespaces, deployments,
                   instance_network, services, ingresses, configMaps, lbPorts,
                   nextAvailablePort, queue, msgs, last, preOpen, handedOut,
                   goroutines, entered>>
    /\ UNCHANGED <<execVars, fieldMask, patchVars, loopVars, quicVars>>

\* The state after the loop body ran for config number idx with outcome r; after
\* the last config the response is built and returned.
Processed(idx, r, successCount, results) ==
    /\ Becomes(r.w)
    /\ lastEl' = [idx |-> idx, instance_id |-> rpc.instance_id, open |-> rpc.open,
                  config |-> rpc.port_configs[idx], result |-> r.result,
                  calls |-> r.w.calls, failed |-> r.w.failed,
                  rowExisted |-> (RowsOf(instance, rpc.instance_id) # {}),
                  changed |-> ([r.w EXCEPT !.calls = <<>>, !.failed = {}] # World)]
    /\ IF idx < Len(rpc.port_configs)
       THEN /\ rpc' = [rpc EXCEPT !.results = results, !.successCount = successCount,
                                  !.resolved = @ \/ RowsOf(instance, rpc.instance_id) # {}]
            /\ resp' = resp
       ELSE /\ rpc' = NoRpc
            /\ resp' = [returned |-> "response", code |-> "",
                        success |-> AllSuccess(successCount, Len(rpc.port_configs)),
                        results |-> results,
                        message |-> Message(successCount, Len(rpc.port_configs)),
                        instance_id |-> rpc.instance_id, open |-> rpc.open,
                        port_configs |-> rpc.port_configs,
                        resolved |-> (rpc.resolved \/ RowsOf(instance, rpc.instance_id) # {})]
    /\ preOpen' = IF /\ rpc.open
                      /\ r.result.success
                      /\ DefaultProtocol(rpc.port_configs[idx].protocol) \in {"TCP", "UDP"}
                      /\ BindingRows(instance_network, rpc.instance_id,
                                     rpc.port_configs[idx].port) = {}
                   THEN [taken |-> TRUE, instance_id |-> rpc.instance_id,
                         port |-> rpc.port_configs[idx].port,
                         protocol |-> rpc.port_configs[idx].protocol,
                         configMaps |-> configMaps, lbPorts |-> lbPorts]
                   ELSE NoSnapshot
    /\ UNCHANGED <<queue, msgs, last, served, goroutines, entered>>
    /\ UNCHANGED <<execVars, fieldMask, patchVars, loopVars, quicVars>>

Looped(idx, r) ==
    Processed(idx, r, rpc.successCount + (IF r.result.success THEN 1 ELSE 0),
              Append(rpc.results, r.result))

\* One iteration of the loop over req.PortConfigs.
ProcessElement(pf) ==
    /\ rpc.active
    /\ Looped(Len(rpc.results) + 1,
              ProcessConfig(World, rpc.instance_id, rpc.open,
                            rpc.port_configs[Len(rpc.results) + 1],
                            ValidateConfig(rpc.port_configs[Len(rpc.results) + 1]), pf))

NextPort ==
    \/ \E body \in CreatedBodies : ConsumeCreated(body)
    \/ \E req \in Requests : StartRequest(req)
    \/ \E pf \in PortFaults : ProcessElement(pf)

SpecPort == Init /\ [][NextPort]_vars

(***************************************************************************)
(* k8sRepo.CreateServiceForTCPUDP called from several request goroutines   *)
(* at once. k8sRepo holds no lock: allocateExternalPort reads and then     *)
(* writes r.nextAvailablePort, and another goroutine can run in between.   *)
(***************************************************************************)
concKept == <<queue, msgs, last, rpc, lastEl, resp, served, preOpen, execPc, stream,
              inputChan, outputChan, errChan, resizeChan, remote, execLocal, execLog,
              fieldMask, loopVars, quicVars>>

\* The ports and protocols of the concurrent opens (instance 1, namespace tenantA).
ConcOpens == [port : {80, 443}, protocol : {"TCP", "UDP"}]

\* A request goroutine enters CreateServiceForTCPUDP.
Enter(p, open) ==
    /\ goroutines[p].pc = "idle"
    /\ entered < MaxCalls
    /\ entered' = entered + 1
    /\ goroutines' = [goroutines EXCEPT ![p] = [Idle EXCEPT !.pc = "create",
                                                           !.port = open.port,
                                                           !.protocol = open.protocol]]
    /\ UNCHANGED <<instance, instance_spec, instance_logs, namespaces, deployments,
                   instance_network, services, ingresses, configMaps, lbPorts,
                   nextAvailablePort, handedOut>>
    /\ UNCHANGED <<concKept, patchVars>>

\* Step 1: Services(namespace).Create.
CreateService(p) ==
    LET g == goroutines[p]
        c == ServicesCreate(World, ClusterIPService(UserOf(1), FormatInt(1), g.port,
                                                    g.protocol), NoPortFault)
    IN /\ g.pc = "create"
       /\ Becomes(c.w)
       /\ goroutines' = [goroutines EXCEPT ![p] =
              IF c.err # "nil" THEN [g EXCEPT !.pc = "done", !.err = "failed to create service"]
              ELSE [g EXCEPT !.pc = "alloc"]]
       /\ UNCHANGED entered
       /\ UNCHANGED <<concKept, patchVars>>

\* Step 2, allocateExternalPort up to "port := r.nextAvailablePort": the range
\* check and the read. When the pool is exhausted 0 is returned and the caller
\* deletes its service.
AllocRead(p) ==
    LET g == goroutines[p]
        x == ExposeTCPUDP(UserOf(1), generateServiceName(FormatInt(1), g.port), g.port,
                          g.protocol, [port |-> 0, w |-> World], NoPortFault)
    IN /\ g.pc = "alloc"
       /\ IF nextAvailablePort > TcpUDPPortRangeEnd
          THEN /\ Becomes(x.w)
               /\ goroutines' = [goroutines EXCEPT ![p] = [g EXCEPT !.pc = "done",
                                                                    !.err = x.err]]
          ELSE /\ goroutines' = [goroutines EXCEPT ![p] = [g EXCEPT !.pc = "incr",
                                                         !.read = nextAvailablePort]]
               /\ UNCHANGED <<instance, instance_spec, instance_logs, namespaces,
                              deployments, instance_network, services, ingresses,
                              configMaps, lbPorts, nextAvailablePort, handedOut>>
       /\ UNCHANGED entered
       /\ UNCHANGED <<concKept, patchVars>>

\* Step 2, allocateExternalPort from "r.nextAvailablePort++" to "return port".
\* The increment is an unsynchronised read-modify-write: it stores one more than
\* the value this goroutine read before, or one more than the value in memory now.
AllocIncr(p) ==
    LET g == goroutines[p]
    IN /\ g.pc = "incr"
       /\ nextAvailablePort' \in {g.read + 1, nextAvailablePort + 1}
       /\ handedOut' = Append(handedOut, g.read)
       /\ goroutines' = [goroutines EXCEPT ![p] = [g EXCEPT !.pc = "patch",
                                                            !.externalPort = g.read]]
       /\ UNCHANGED <<instance, instance_spec, instance_logs, namespaces, deployments,
                      instance_network, services, ingresses, configMaps, lbPorts, entered>>
       /\ UNCHANGED <<concKept, patchVars>>

\* The API server's optimistic-concurrency check: an Update carries the
\* resourceVersion its object was read with and is refused with a Conflict
\* when the stored object has another one by then.
Conflict(read, stored) == IF read # stored THEN "Conflict" ELSE "nil"

\* The resourceVersion of every object after a step: a write that changes an
\* object gives it a new one.
Rewritten(w) ==
    [configMaps |-> [name \in DOMAIN configMaps |->
                        IF w.configMaps[name] # configMaps[name]
                        THEN resourceVersion.configMaps[name] + 1
                        ELSE resourceVersion.configMaps[name]],
     lbService |-> IF w.lbPorts # lbPorts THEN resourceVersion.lbService + 1
                   ELSE resourceVersion.lbService]

\* The Update call fails when the API server answers Conflict.
UpdateFault(site, conflict) ==
    IF conflict = "nil" THEN NoPortFault ELSE [fail |-> site, del |-> "none"]

\* Step 3, patchIngressNginxConfigMap up to ConfigMaps.Get: the goroutine holds
\* the ConfigMap with the resourceVersion it has now.
CmGet(p) ==
    LET g == goroutines[p]
    IN /\ g.pc = "patch"
       /\ goroutines' = [goroutines EXCEPT ![p] =
              [g EXCEPT !.pc = "cmUpdate",
                        !.cmVersion = resourceVersion.configMaps[ConfigMapNameOf(g.protocol)]]]
       /\ UNCHANGED <<instance, instance_spec, instance_logs, namespaces, deployments,
                      instance_network, services, ingresses, configMaps, lbPorts,
                      nextAvailablePort, handedOut, entered>>
       /\ UNCHANGED <<concKept, patchVars>>

\* Step 3, from cm.Data[key] = value to the return of ConfigMaps.Update, and the
\* deletion of the goroutine's service when the update is refused.
CmUpdate(p) ==
    LET g == goroutines[p]
        name == ConfigMapNameOf(g.protocol)
        serviceName == generateServiceName(FormatInt(1), g.port)
        cm == patchIngressNginxConfigMap(World, name, FormatInt(g.externalPort),
                  UserOf(1) \o "/" \o serviceName \o ":" \o FormatInt(g.port),
                  UpdateFault("ConfigMaps.Update",
                              Conflict(g.cmVersion, resourceVersion.configMaps[name])))
        w == IF cm.err # "nil" THEN ServicesDelete(cm.w, UserOf(1), serviceName, NoPortFault).w
             ELSE cm.w
    IN /\ g.pc = "cmUpdate"
       /\ Becomes(w)
       /\ resourceVersion' = Rewritten(w)
       /\ goroutines' = [goroutines EXCEPT ![p] =
              IF cm.err # "nil"
              THEN [g EXCEPT !.pc = "done", !.err = "failed to patch ConfigMap"]
              ELSE [g EXCEPT !.pc = "lbGet"]]
       /\ UNCHANGED entered
       /\ UNCHANGED concKept

\* Step 4, patchIngressNginxServicePort up to the loop over svc.Spec.Ports: the
\* goroutine holds the Service with the resourceVersion it has now, and returns
\* nil when the port is already there.
LbGet(p) ==
    LET g == goroutines[p]
    IN /\ g.pc = "lbGet"
       /\ goroutines' = [goroutines EXCEPT ![p] =
              IF HasPort(lbPorts, g.externalPort, g.protocol)
              THEN [g EXCEPT !.pc = "done", !.err = "nil"]
              ELSE [g EXCEPT !.pc = "lbUpdate", !.lbVersion = resourceVersion.lbService]]
       /\ UNCHANGED <<instance, instance_spec, instance_logs, namespaces, deployments,
                      instance_network, services, ingresses, configMaps, lbPorts,
                      nextAvailablePort, handedOut, entered>>
       /\ UNCHANGED <<concKept, patchVars>>

\* Step 4, from the append to the return of Services.Update, and the deletion
\* of the goroutine's ConfigMap entry and service when the update is refused.
LbUpdate(p) ==
    LET g == goroutines[p]
        serviceName == generateServiceName(FormatInt(1), g.port)
        lb == patchIngressNginxServicePort(World, g.externalPort, g.protocol,
                  UpdateFault("LBService.Update",
                              Conflict(g.lbVersion, resourceVersion.lbService)))
        w == IF lb.err # "nil"
             THEN ServicesDelete(DeleteTCPUDPConfigMapEntry(lb.w, g.protocol, g.externalPort,
                                                            NoPortFault).w,
                                 UserOf(1), serviceName, NoPortFault).w
             ELSE lb.w
    IN /\ g.pc = "lbUpdate"
       /\ Becomes(w)
       /\ resourceVersion' = Rewritten(w)
       /\ goroutines' = [goroutines EXCEPT ![p] =
              IF lb.err # "nil"
              THEN [g EXCEPT !.pc = "done", !.err = "failed to patch ingress-nginx Service"]
              ELSE [g EXCEPT !.pc = "done", !.err = "nil"]]
       /\ UNCHANGED entered
       /\ UNCHANGED concKept

\* CreateServiceForTCPUDP returns to its caller.
Return(p) ==
    /\ goroutines[p].pc = "done"
    /\ goroutines' = [goroutines EXCEPT ![p] = Idle]
    /\ UNCHANGED <<instance, instance_spec, instance_logs, namespaces, deployments,
                   instance_network, services, ingresses, configMaps, lbPorts,
                   nextAvailablePort, handedOut, entered>>
    /\ UNCHANGED <<concKept, patchVars>>

NextConc ==
    \/ \E p \in Goroutines, open \in ConcOpens : Enter(p, open)
    \/ \E p \in Goroutines : CreateService(p)
    \/ \E p \in Goroutines : AllocRead(p)
    \/ \E p \in Goroutines : AllocIncr(p)
    \/ \E p \in Goroutines : CmGet(p)
    \/ \E p \in Goroutines : CmUpdate(p)
    \/ \E p \in Goroutines : LbGet(p)
    \/ \E p \in Goroutines : LbUpdate(p)
    \/ \E p \in Goroutines : Return(p)

SpecConc == Init /\ [][NextConc]_vars

(***************************************************************************)
(* Properties of the reconciler and the broker consumer (Spec).            *)
(***************************************************************************)
Ran == last.id # 0

MadeCall(name) == \E i \in 1..Len(last.calls) : last.calls[i] = name

CreateAudits(id) ==
    {i \in 1..Len(instance_logs) :
        instance_logs[i].instance_id = id /\ instance_logs[i].log_type = "CREATE"}

Workloads(id) == {d \in deployments : d.namespace = UserOf(id) /\ d.name = id}

\* C1: when the instance store answers a create with AlreadyExists, the
\* reconciler's CreateInstance returns success, makes no cluster
\* workload-creation call and appends no audit record.
C1_AlreadyExistsIsIdempotentSuccess ==
    (Ran /\ last.storeErr = ErrInstanceAlreadyExists) =>
        /\ last.err = "nil"
        /\ ~MadeCall("K8sRepo.CreateInstance")
        /\ ~MadeCall("AuditRepo.CreateAudit")
        /\ ~last.clusterTouched
        /\ last.auditAppended = 0

C1_Witness ==
    /\ Ran
    /\ last.storeErr = ErrInstanceAlreadyExists
    /\ last.ops = <<"ack">>
    /\ Len(instance_logs) = 1

\* C2: for every delivery the consumer performs exactly one settle operation:
\* acknowledge iff the handler returned no error, reject-with-requeue iff it
\* returned an error, reject-without-requeue iff it panicked.
C2_ExactlyOneSettle ==
    Ran =>
        /\ Len(last.ops) = 1
        /\ (last.ops[1] = "ack") <=> (last.err = "nil")
        /\ (last.ops[1] = "rejectRequeue") <=> (last.err \notin {"nil", "panic"})
        /\ (last.ops[1] = "rejectDrop") <=> (last.err = "panic")

C2_Witness ==
    /\ Len(msgs) = 2
    /\ msgs[1].fate = "acked"
    /\ msgs[2].fate = "dropped"
    /\ last.err = "panic"
    /\ last.ops = <<"rejectDrop">>

\* C3 (as claimed): an INSTANCE_CREATED event with instance_id = 0 or without a
\* spec fails with INVALID_ARGUMENT without touching the store or the cluster,
\* and the message is dropped: not requeued, never delivered again.
C3_InvalidCreatedIsDropped ==
    (Ran /\ IsCreated(last.body) /\ ~ValidCreated(last.body)) =>
        /\ last.err = "INVALID_ARGUMENT"
        /\ last.calls = <<>>
        /\ ~last.storeTouched
        /\ ~last.clusterTouched
        /\ last.ops = <<"rejectDrop">>
        /\ msgs[last.id].fate = "dropped"
        /\ msgs[last.id].deliveries = 1

\* C4 (as claimed): once an INSTANCE_CREATED event has been received twice
\* (two messages, or one message delivered again) and every message carrying it
\* is acknowledged, there is exactly one Instance row, exactly one InstanceSpec
\* row and exactly one CREATE audit record for its instance_id.
ReceivedTwice(body) ==
    \/ \E m \in 1..Len(msgs) : msgs[m].body = body /\ msgs[m].deliveries >= 2
    \/ \E m1, m2 \in 1..Len(msgs) :
          /\ m1 # m2
          /\ msgs[m1].body = body /\ msgs[m1].deliveries >= 1
          /\ msgs[m2].body = body /\ msgs[m2].deliveries >= 1

AllAcked(body) == \A m \in 1..Len(msgs) : msgs[m].body = body => msgs[m].fate = "acked"

C4_SameEventTwiceOneOfEach ==
    \A body \in Bodies :
        (ValidCreated(body) /\ ReceivedTwice(body) /\ AllAcked(body)) =>
            /\ Cardinality(RowsOf(instance, body.event.instance_id)) = 1
            /\ Cardinality(RowsOf(instance_spec, body.event.instance_id)) = 1
            /\ Cardinality(CreateAudits(body.event.instance_id)) = 1

\* C5 (as claimed): every acknowledged INSTANCE_CREATED event has both its
\* Instance row and its cluster-side workload, also when the cluster call failed
\* after the store commit and the event was requeued.
C5_AckedInstanceHasWorkload ==
    \A m \in 1..Len(msgs) :
        (ValidCreated(msgs[m].body) /\ msgs[m].fate = "acked") =>
            /\ Cardinality(RowsOf(instance, msgs[m].body.event.instance_id)) = 1
            /\ Cardinality(Workloads(msgs[m].body.event.instance_id)) = 1

\* C6: in every store state each Instance row has exactly one InstanceSpec row
\* with the same instance_id and vice versa; the two inserts commit together or
\* not at all, also when the second insert fails.
C6_InstanceAndSpecRowsPaired ==
    \A id \in 0..MaxInstanceId :
        /\ Cardinality(RowsOf(instance, id)) = Cardinality(RowsOf(instance_spec, id))
        /\ Cardinality(RowsOf(instance, id)) <= 1

C6_Witness ==
    /\ Ran
    /\ last.specInsertFailed
    /\ last.storeErr = "db error"
    /\ Len(instance) = 1
    /\ Len(instance_spec) = 1
    /\ RowsOf(instance, last.body.event.instance_id) = {}

\* C7: when the store insert fails with an error other than AlreadyExists, the
\* reconciler's CreateInstance returns that error and makes no cluster call and
\* no audit append.
C7_OtherStoreErrorsPassThrough ==
    (Ran /\ last.storeErr \notin {"nil", "none", "panic", ErrInstanceAlreadyExists}) =>
        /\ last.err = last.storeErr
        /\ ~MadeCall("K8sRepo.CreateInstance")
        /\ ~MadeCall("AuditRepo.CreateAudit")
        /\ ~last.clusterTouched
        /\ last.auditAppended = 0

C7_Witness ==
    /\ Ran
    /\ last.storeErr = "db error"
    /\ ~last.specInsertFailed
    /\ last.err = "db error"
    /\ last.ops = <<"rejectRequeue">>

(***************************************************************************)
(* Properties of the port-exposure engine (SpecPort).                      *)
(***************************************************************************)
ElementRan == lastEl.idx # 0

Responded == resp.returned = "response"

ElementMadeCall(name) == \E i \in 1..Len(lastEl.calls) : lastEl.calls[i] = name

InOrder(results, configs) ==
    \A i \in 1..Len(results) : i <= Len(configs) /\ results[i].port = configs[i].port

\* C8: a SetInstancePort response carries exactly one result per requested
\* port config, in request order; every config is processed whatever happened
\* to the ones before it; and the response's success flag is true iff every
\* element succeeded.
C8_OneResultPerConfigInOrder ==
    /\ rpc.active =>
          /\ Len(rpc.results) < Len(rpc.port_configs)
          /\ InOrder(rpc.results, rpc.port_configs)
          /\ ElementRan => lastEl.idx = Len(rpc.results) /\ lastEl.result = rpc.results[lastEl.idx]
    /\ Responded =>
          /\ Len(resp.results) = Len(resp.port_configs)
          /\ InOrder(resp.results, resp.port_configs)
          /\ lastEl.idx = Len(resp.port_configs)
          /\ lastEl.result = resp.results[lastEl.idx]
          /\ resp.success <=> \A i \in 1..Len(resp.results) : resp.results[i].success

C8_Witness ==
    /\ Responded
    /\ Len(resp.results) = 2
    /\ ~resp.results[1].success
    /\ resp.results[2].success
    /\ resp.results[1].port # resp.results[2].port
    /\ ElementMadeCall("NetworkRepo.CreateNetworkBinding")
    /\ ~resp.success

Rejected(config) ==
    \/ config.port < 1
    \/ config.port > 65535
    \/ config.protocol \notin {"", "TCP", "UDP", "HTTP"}
    \/ config.protocol \in {"", "HTTP"} /\ config.ingress_domain = ""

\* C10: a port config that fails validation (port outside 1..65535, protocol
\* not TCP, UDP or HTTP, or HTTP with an empty ingress_domain) is reported as a
\* failed element, and no store or cluster call is made for it.
C10_InvalidConfigMakesNoCall ==
    (ElementRan /\ Rejected(lastEl.config)) =>
        /\ ~lastEl.result.success
        /\ lastEl.result.error # ""
        /\ lastEl.result.port = lastEl.config.port
        /\ lastEl.calls = <<>>
        /\ ~lastEl.changed

C10_Witness ==
    /\ ElementRan
    /\ lastEl.rowExisted
    /\ lastEl.config.protocol = ""
    /\ lastEl.config.ingress_domain = ""
    /\ lastEl.result.error = "ingress_domain is required for HTTP protocol"
    /\ lastEl.calls = <<>>
    /\ Responded
    /\ lastEl.idx = 2
    /\ resp.results[1].success

\* A step of ProcessElement: one more port config was processed.
ElementStep == lastEl'.idx # 0 /\ lastEl' # lastEl

EnabledBindings(table, instanceID, port) ==
    {i \in BindingRows(table, instanceID, port) : table[i].enabled}

ClusterUnchanged ==
    /\ services' = services
    /\ ingresses' = ingresses
    /\ configMaps' = configMaps
    /\ lbPorts' = lbPorts
    /\ namespaces' = namespaces
    /\ deployments' = deployments

\* C11: an open element for an (instance_id, port) that already has an enabled
\* binding returns that binding's access_url, creates or mutates no cluster
\* object, allocates no external port and leaves the binding rows unchanged
\* (unless one of the two store reads before the check fails, which changes
\* nothing either).
C11_OpenIsIdempotent ==
    [][(/\ ElementStep
        /\ lastEl'.open
        /\ ~Rejected(lastEl'.config)
        /\ EnabledBindings(instance_network, lastEl'.instance_id, lastEl'.config.port) # {})
       => /\ ClusterUnchanged
          /\ nextAvailablePort' = nextAvailablePort
          /\ instance_network' = instance_network
          /\ \/ lastEl'.result.error = "db error"
             \/ /\ lastEl'.result.success
                /\ \A i \in EnabledBindings(instance_network, lastEl'.instance_id,
                                            lastEl'.config.port) :
                       lastEl'.result.access_url = instance_network[i].access_url]_vars

C11_Witness ==
    /\ ElementRan
    /\ lastEl.open
    /\ lastEl.result.success
    /\ lastEl.calls = <<"InstanceRepo.GetResource", "NetworkRepo.GetNetworkBinding">>
    /\ \E i \in EnabledBindings(instance_network, lastEl.instance_id, lastEl.config.port) :
           /\ instance_network[i].access_url = lastEl.result.access_url
           /\ instance_network[i].protocol = "TCP"
    /\ nextAvailablePort = TcpUDPPortRangeStart + 1

\* The element's Services.Create call returned without error: it is in the
\* call log and other calls follow it.
ServiceCreated(el) ==
    \E i \in 1..(Len(el.calls) - 1) : el.calls[i] = "Services.Create"

Range(seq) == {seq[i] : i \in 1..Len(seq)}

\* C12: when an open element fails after its cluster-internal service was
\* created and no compensating deletion call fails, then after the element no
\* service, ingress, config-map entry or load-balancer port made by it remains
\* and no binding row exists for its (instance_id, port).
C12_FailedOpenLeavesNothing ==
    [][(/\ ElementStep
        /\ lastEl'.open
        /\ ~lastEl'.result.success
        /\ ServiceCreated(lastEl')
        /\ lastEl'.failed = {})
       => /\ services' = services
          /\ ingresses' = ingresses
          /\ configMaps' = configMaps
          /\ Range(lbPorts') = Range(lbPorts)
          /\ BindingRows(instance_network', lastEl'.instance_id, lastEl'.config.port) = {}]_vars

C12_Witness ==
    /\ ElementRan
    /\ lastEl.open
    /\ ~lastEl.result.success
    /\ ServiceCreated(lastEl)
    /\ lastEl.failed = {}
    /\ ElementMadeCall("NetworkRepo.CreateNetworkBinding")
    /\ ElementMadeCall("K8sRepo.DeleteTCPUDPConfigMapEntry")
    /\ services = {}
    /\ nextAvailablePort = TcpUDPPortRangeStart + 1

\* C13: a close element for an existing instance and an (instance_id, port)
\* without binding row succeeds and deletes or mutates no cluster object,
\* deletes no row and appends no audit record (unless one of the two store
\* reads before the check fails, which changes nothing either).
C13_CloseIsIdempotent ==
    [][(/\ ElementStep
        /\ ~lastEl'.open
        /\ ~Rejected(lastEl'.config)
        /\ RowsOf(instance, lastEl'.instance_id) # {}
        /\ BindingRows(instance_network, lastEl'.instance_id, lastEl'.config.port) = {})
       => /\ ClusterUnchanged
          /\ instance_network' = instance_network
          /\ instance_logs' = instance_logs
          /\ lastEl'.result.success \/ lastEl'.result.error = "db error"]_vars

C13_Witness ==
    /\ ElementRan
    /\ ~lastEl.open
    /\ lastEl.result.success
    /\ lastEl.calls = <<"InstanceRepo.GetResource", "NetworkRepo.GetNetworkBinding">>
    /\ BindingRows(instance_network, lastEl.instance_id, lastEl.config.port) = {}
    /\ instance_network # <<>>
    /\ services # {}

ServiceNamed(objects, instanceID, port) ==
    {o \in objects : o.name = "instance-" \o ToString(instanceID) \o "-" \o ToString(port)}

IngressNamed(objects, instanceID, port) ==
    {o \in objects : o.name = "ingress-" \o ToString(instanceID) \o "-" \o ToString(port)}

\* C14 (as claimed): when a close element reports success for an
\* (instance_id, port) whose binding a successful HTTP open made, no service
\* instance-{id}-{port}, no ingress ingress-{id}-{port} and no binding row is
\* left.
C14_HttpOpenCloseLeavesNothing ==
    [][(/\ ElementStep
        /\ ~lastEl'.open
        /\ lastEl'.result.success
        /\ \E i \in BindingRows(instance_network, lastEl'.instance_id, lastEl'.config.port) :
               instance_network[i].protocol = "HTTP")
       => /\ ServiceNamed(services', lastEl'.instance_id, lastEl'.config.port) = {}
          /\ IngressNamed(ingresses', lastEl'.instance_id, lastEl'.config.port) = {}
          /\ BindingRows(instance_network', lastEl'.instance_id, lastEl'.config.port) = {}]_vars

\* C15 (as claimed): a close element for an existing instance that gives a
\* valid port but no protocol and no ingress_domain is processed, succeeds, and
\* afterwards the port has no binding row, no service and no ingress.
C15_CloseNeedsOnlyPort ==
    (/\ ElementRan
     /\ ~lastEl.open
     /\ lastEl.rowExisted
     /\ lastEl.config.port \in 1..65535
     /\ lastEl.config.protocol = ""
     /\ lastEl.config.ingress_domain = "")
    => /\ lastEl.result.success
       /\ ElementMadeCall("NetworkRepo.GetNetworkBinding")
       /\ BindingRows(instance_network, lastEl.instance_id, lastEl.config.port) = {}
       /\ ServiceNamed(services, lastEl.instance_id, lastEl.config.port) = {}
       /\ IngressNamed(ingresses, lastEl.instance_id, lastEl.config.port) = {}

\* C16 (as claimed): when a close element reports success right after the
\* successful TCP open that made the binding of the same (instance_id, port),
\* the ingress-controller config maps and the load-balancer port list are, as
\* sets, what they were before that open.
C16_TcpOpenCloseRestoresL4 ==
    [][(/\ ElementStep
        /\ ~lastEl'.open
        /\ lastEl'.result.success
        /\ preOpen.taken
        /\ preOpen.protocol = "TCP"
        /\ preOpen.instance_id = lastEl'.instance_id
        /\ preOpen.port = lastEl'.config.port)
       => /\ configMaps' = preOpen.configMaps
          /\ Range(lbPorts') = Range(preOpen.lbPorts)]_vars

\* C17: every enabled binding row has exactly one of external_port and
\* ingress_name set: external_port alone iff its protocol is TCP or UDP,
\* ingress_name alone iff its protocol is HTTP.
C17_ExactlyOneOfPortAndIngress ==
    \A i \in 1..Len(instance_network) :
        LET row == instance_network[i]
        IN row.enabled =>
              /\ (row.protocol \in {"TCP", "UDP"})
                    <=> (row.external_port # Nil /\ row.ingress_name = Nil)
              /\ (row.protocol = "HTTP")
                    <=> (row.ingress_name # Nil /\ row.external_port = Nil)

C17_Witness ==
    /\ \E i \in 1..Len(instance_network) :
          /\ instance_network[i].enabled
          /\ instance_network[i].protocol = "HTTP"
          /\ instance_network[i].ingress_name = Ptr("ingress-1-80")
    /\ \E i \in 1..Len(instance_network) :
          /\ instance_network[i].enabled
          /\ instance_network[i].protocol = "UDP"
          /\ instance_network[i].external_port = Ptr(TcpUDPPortRangeStart)

\* C18 (as claimed): between SetInstancePort elements, every enabled binding
\* row names a service that is live in the namespace of the row's instance.
C18_EnabledRowHasLiveService ==
    \A i \in 1..Len(instance_network) :
        LET row == instance_network[i]
        IN row.enabled =>
              \E j \in RowsOf(instance, row.instance_id) : \E s \in services :
                  SameObject(s, instance[j].user_id, row.service_name)

StrictlyIncreasing(seq) == \A i, j \in 1..Len(seq) : i < j => seq[i] < seq[j]

\* C19 (as claimed): the ports allocateExternalPort handed out are strictly
\* increasing (so none is handed out twice), each lies in
\* [TcpUDPPortRangeStart, TcpUDPPortRangeEnd], and once the counter is past
\* TcpUDPPortRangeEnd no step hands out a port or changes the counter.
C19_PortsIncreaseInRangeNeverReused ==
    [][/\ StrictlyIncreasing(handedOut')
       /\ \A i \in 1..Len(handedOut') :
              TcpUDPPortRangeStart <= handedOut'[i] /\ handedOut'[i] <= TcpUDPPortRangeEnd
       /\ nextAvailablePort > TcpUDPPortRangeEnd
             => nextAvailablePort' = nextAvailablePort /\ handedOut' = handedOut]_vars

\* C20 (as claimed): two calls of CreateServiceForTCPUDP that are running at
\* the same time never hold the same external port.
C20_ConcurrentOpensGetDistinctPorts ==
    \A p, q \in Goroutines :
        (p # q /\ goroutines[p].externalPort # 0 /\ goroutines[q].externalPort # 0)
            => goroutines[p].externalPort # goroutines[q].externalPort

(***************************************************************************)
(* The exec bridge: ResourceService.ExecContainer, ResourceUsecase         *)
(* .StreamExec and execRepo.StreamExec with the goroutines they start, for *)
(* one session. The client, the store and the cluster are the environment. *)
(***************************************************************************)
execKept == <<instance, instance_spec, instance_logs, namespaces, deployments, queue, msgs,
              last, instance_network, services, ingresses, configMaps, lbPorts,
              nextAvailablePort, rpc, lastEl, resp, served, preOpen, handedOut,
              goroutines, entered, fieldMask, patchVars, loopVars, quicVars>>

\* The first frame a client sends, or none when it closes the stream at once.
FirstFrames == {NoFrame, InputFrame("a"), InitFrame(0, <<"sh">>, FALSE),
                InitFrame(1, <<>>, FALSE), InitFrame(1, <<"sh">>, FALSE),
                InitFrame(1, <<"sh">>, TRUE), InitFrame(2, <<"sh">>, FALSE)}

\* The frames a client sends after Init, in the order it sends them.
\* The last one resizes the terminal once more than the size queue has room for.
Scripts == {<<>>, <<InputFrame("a"), InputFrame("b")>>, <<ResizeFrame, InputFrame("a")>>,
            [i \in 1..(ChanCap + 1) |-> ResizeFrame] \o <<InputFrame("a")>>}

\* What the process behind the exec channel writes to stdout and stderr, in
\* chunks as the readers get them.
Outputs == {[stdout |-> <<>>, stderr |-> <<>>], [stdout |-> <<"x", "y">>, stderr |-> <<>>],
            [stdout |-> <<"x">>, stderr |-> <<"e">>]}

\* The store call of the session succeeds or fails.
ExecFaults == {NoPortFault, [fail |-> "GetResource", del |-> "none"]}

\* A panic ends the process and with it every goroutine.
Alive == ~execLog.panicked

\* ch <- v on a buffered channel: v goes to the back of the buffer.
Enqueue_Front(buf, v) == <<v>> \o buf

Enqueue(buf, v) == Append(buf, v)

InitError_Accept(req) == ""

\* ExecContainer steps 1 and 2: the status the first frame is refused with,
\* "" when it is accepted.
InitError(req) ==
    IF req.kind = "" THEN "STREAM_ERROR"
    ELSE IF req.kind # "Init" THEN "INVALID_ARGUMENT"
    ELSE IF req.instance_id = 0 THEN "INVALID_ARGUMENT"
    ELSE IF Len(req.command) = 0 THEN "INVALID_ARGUMENT"
    ELSE ""

ResolveNamespace_Any(w, instanceID, pf) ==
    [code |-> "", namespace |-> UserOf(instanceID),
     calls |-> GetResource(w, instanceID, pf).w.calls]

\* ExecContainer step 3: the instance's namespace from the store.
ResolveNamespace(w, instanceID, pf) ==
    LET g == GetResource(w, instanceID, pf)
    IN IF g.err # "nil"
       THEN [code |-> "INTERNAL_ERROR", namespace |-> "", calls |-> g.w.calls]
       ELSE IF g.resource = Nil
       THEN [code |-> "NOT_FOUND", namespace |-> "", calls |-> g.w.calls]
       ELSE IF g.resource[1].UserID = ""
       THEN [code |-> "INTERNAL_ERROR", namespace |-> "", calls |-> g.w.calls]
       ELSE [code |-> "", namespace |-> g.resource[1].UserID, calls |-> g.w.calls]

\* The ExecResponse the output goroutine builds from an ExecOutput.
ToResponse(out) ==
    IF out.type = "Data"
    THEN [type |-> "Output", stream |-> IF out.stream = "stderr" THEN "STDERR" ELSE "STDOUT",
          data |-> out.data, code |-> 0]
    ELSE IF out.type = "Error"
    THEN [type |-> "Error", stream |-> "", data |-> out.data, code |-> 0]
    ELSE [type |-> "Exit", stream |-> "", data |-> "", code |-> out.code]

\* ExecContainer from the first Recv to the start of its two goroutines.
RecvInit(first, script, pf) ==
    LET e == InitError(first)
        r == ResolveNamespace(World, first.instance_id, pf)
    IN /\ Alive
       /\ execPc.handler = "recvInit"
       /\ IF e # ""
          THEN /\ stream' = [stream EXCEPT !.status = e]
               /\ execPc' = [execPc EXCEPT !.handler = "done"]
               /\ execLocal' = [execLocal EXCEPT !.init = first]
               /\ UNCHANGED execLog
          ELSE IF r.code # ""
          THEN /\ stream' = [stream EXCEPT !.status = r.code]
               /\ execPc' = [execPc EXCEPT !.handler = "done"]
               /\ execLocal' = [execLocal EXCEPT !.init = first]
               /\ execLog' = [execLog EXCEPT !.calls = @ \o r.calls,
                                              !.storeFailed = (pf.fail = "GetResource")]
          ELSE /\ stream' = [stream EXCEPT !.script = script, !.toSend = script]
               /\ execPc' = [execPc EXCEPT !.handler = "list", !.recv = "recv",
                                           !.send = "range"]
               /\ execLocal' = [execLocal EXCEPT !.init = first, !.namespace = r.namespace]
               /\ execLog' = [execLog EXCEPT !.calls = @ \o r.calls]
       /\ UNCHANGED <<inputChan, outputChan, errChan, resizeChan, remote>>
       /\ UNCHANGED execKept

\* execRepo.StreamExec up to exec.StreamWithContext: the pod list, and when a
\* pod is found the pipes and the three goroutines.
ListPods(outcome, out) ==
    /\ Alive
    /\ execPc.handler = "list"
    /\ outcome = "pod" => \E d \in deployments :
                              /\ d.namespace = execLocal.namespace
                              /\ d.name = execLocal.init.instance_id
    /\ IF outcome = "pod"
       THEN /\ execPc' = [execPc EXCEPT !.handler = "stream", !.handleInput = "range",
                                        !.stdout = "read", !.stderr = "read"]
            /\ remote' = [NoRemote EXCEPT !.stdout = out.stdout, !.stderr = out.stderr,
                                          !.started = TRUE]
            /\ execLog' = [execLog EXCEPT !.calls = @ \o <<"Pods.List", "Pods.Exec">>]
            /\ UNCHANGED execLocal
       ELSE /\ execPc' = [execPc EXCEPT !.handler = "close"]
            /\ execLocal' = [execLocal EXCEPT !.err = IF outcome = "none"
                                                      THEN "pod not found"
                                                      ELSE "failed to list pods"]
            /\ execLog' = [execLog EXCEPT !.calls = Append(@, "Pods.List")]
            /\ UNCHANGED remote
    /\ UNCHANGED <<stream, inputChan, outputChan, errChan, resizeChan>>
    /\ UNCHANGED execKept

\* biz.ExecOutput{Type: ExecOutputError, Data: []byte(err.Error())}
ErrorOutput(err) == [type |-> "Error", stream |-> "", data |-> err, code |-> 0]

\* biz.ExecOutput{Type: ExecOutputExit, ExitCode: exitCode}
ExitOutput(code) == [type |-> "Exit", stream |-> "", data |-> "", code |-> code]

exitCode_Zero(err) == 0

\* exitCode := int32(0); if err != nil { exitCode = 1 }
exitCode(err) == IF err # "nil" THEN 1 ELSE 0

StreamReturn_SkipError(err) ==
    /\ Alive
    /\ execPc.handler = "stream"
    /\ \/ err \in {"nil", "command failed"} /\ remote.stdout = <<>> /\ remote.stderr = <<>>
       \/ err = "context canceled" /\ stream.cancelled
    /\ execLocal' = [execLocal EXCEPT !.err = err]
    /\ execPc' = [execPc EXCEPT !.handler = "sendExit"]
    /\ UNCHANGED <<stream, inputChan, outputChan, errChan, resizeChan, remote, execLog>>
    /\ UNCHANGED execKept

\* exec.StreamWithContext returns: the process ended after its output was
\* copied (with or without an error), or the stream's context was cancelled.
StreamReturn(err) ==
    /\ Alive
    /\ execPc.handler = "stream"
    /\ \/ err \in {"nil", "command failed"} /\ remote.stdout = <<>> /\ remote.stderr = <<>>
       \/ err = "context canceled" /\ stream.cancelled
    /\ execLocal' = [execLocal EXCEPT !.err = err]
    /\ execPc' = [execPc EXCEPT !.handler = IF err # "nil" THEN "sendError" ELSE "sendExit"]
    /\ UNCHANGED <<stream, inputChan, outputChan, errChan, resizeChan, remote, execLog>>
    /\ UNCHANGED execKept

\* StreamExec step 9: output <- ExecOutput{Type: ExecOutputError}.
SendErrorFrame ==
    /\ Alive
    /\ execPc.handler = "sendError"
    /\ Len(outputChan.buf) < ChanCap
    /\ outputChan' = [outputChan EXCEPT !.buf = Enqueue(@, ErrorOutput(execLocal.err))]
    /\ execLog' = [execLog EXCEPT !.completion = Append(@, ErrorOutput(execLocal.err))]
    /\ execPc' = [execPc EXCEPT !.handler = "sendExit"]
    /\ UNCHANGED <<stream, inputChan, errChan, resizeChan, remote, execLocal>>
    /\ UNCHANGED execKept

\* StreamExec step 10: output <- ExecOutput{Type: ExecOutputExit}.
SendExitFrame ==
    /\ Alive
    /\ execPc.handler = "sendExit"
    /\ Len(outputChan.buf) < ChanCap
    /\ outputChan' = [outputChan EXCEPT !.buf = Enqueue(@, ExitOutput(exitCode(execLocal.err)))]
    /\ execLog' = [execLog EXCEPT !.completion = Append(@, ExitOutput(exitCode(execLocal.err)))]
    /\ execPc' = [execPc EXCEPT !.handler = "close"]
    /\ UNCHANGED <<stream, inputChan, errChan, resizeChan, remote, execLocal>>
    /\ UNCHANGED execKept

\* ExecContainer: close(outputChan) after StreamExec returned.
CloseOutput ==
    /\ Alive
    /\ execPc.handler = "close"
    /\ outputChan' = [outputChan EXCEPT !.closed = TRUE]
    /\ execPc' = [execPc EXCEPT !.handler = "wait"]
    /\ UNCHANGED <<stream, inputChan, errChan, resizeChan, remote, execLocal, execLog>>
    /\ UNCHANGED execKept

\* ExecContainer: return <-errChan; the stream is closed with that status.
HandlerReturn ==
    /\ Alive
    /\ execPc.handler = "wait"
    /\ errChan # <<>>
    /\ stream' = [stream EXCEPT !.status = IF errChan[1] = "nil" THEN "OK" ELSE "UNKNOWN"]
    /\ errChan' = <<>>
    /\ execPc' = [execPc EXCEPT !.handler = "done"]
    /\ UNCHANGED <<inputChan, outputChan, resizeChan, remote, execLocal, execLog>>
    /\ UNCHANGED execKept

\* Input goroutine of ExecContainer: stream.Recv() returns the client's next frame.
RecvFrame ==
    /\ Alive
    /\ execPc.recv = "recv"
    /\ execPc.handler # "done"
    /\ stream.toSend # <<>>
    /\ stream' = [stream EXCEPT !.toSend = Tail(@)]
    /\ execLocal' = [execLocal EXCEPT !.req = Head(stream.toSend)]
    /\ execPc' = [execPc EXCEPT !.recv = IF Head(stream.toSend).kind \in {"Input", "Resize"}
                                         THEN "push" ELSE "recv"]
    /\ UNCHANGED <<inputChan, outputChan, errChan, resizeChan, remote, execLog>>
    /\ UNCHANGED execKept

\* Input goroutine: stream.Recv() fails (the client closed its side, the context
\* was cancelled or the handler returned); the deferred close(inputChan) runs.
RecvFails ==
    /\ Alive
    /\ execPc.recv = "recv"
    /\ \/ stream.cancelled
       \/ execPc.handler = "done"
       \/ stream.halfClosed /\ stream.toSend = <<>>
    /\ inputChan' = [inputChan EXCEPT !.closed = TRUE]
    /\ execPc' = [execPc EXCEPT !.recv = "done"]
    /\ UNCHANGED <<stream, outputChan, errChan, resizeChan, remote, execLocal, execLog>>
    /\ UNCHANGED execKept

\* Input goroutine: inputChan <- biz.ExecInput{...}.
PushInput ==
    /\ Alive
    /\ execPc.recv = "push"
    /\ Len(inputChan.buf) < ChanCap
    /\ inputChan' = [inputChan EXCEPT !.buf = Enqueue(@, execLocal.req)]
    /\ execPc' = [execPc EXCEPT !.recv = "recv"]
    /\ UNCHANGED <<stream, outputChan, errChan, resizeChan, remote, execLocal, execLog>>
    /\ UNCHANGED execKept

\* Output goroutine of ExecContainer: the next ExecOutput of outputChan goes to
\* stream.Send; when Send fails the goroutine reports the error and stops.
SendFrame ==
    /\ Alive
    /\ execPc.send = "range"
    /\ outputChan.buf # <<>>
    /\ outputChan' = [outputChan EXCEPT !.buf = Tail(@)]
    /\ IF stream.cancelled
       THEN /\ errChan' = <<"send failed">>
            /\ execPc' = [execPc EXCEPT !.send = "done"]
            /\ UNCHANGED stream
       ELSE /\ stream' = [stream EXCEPT !.sent = Append(@, ToResponse(Head(outputChan.buf)))]
            /\ UNCHANGED <<errChan, execPc>>
    /\ UNCHANGED <<inputChan, resizeChan, remote, execLocal, execLog>>
    /\ UNCHANGED execKept

\* Output goroutine: outputChan is closed and empty, errChan <- nil.
SendDone ==
    /\ Alive
    /\ execPc.send = "range"
    /\ outputChan.buf = <<>>
    /\ outputChan.closed
    /\ errChan' = <<"nil">>
    /\ execPc' = [execPc EXCEPT !.send = "done"]
    /\ UNCHANGED <<stream, inputChan, outputChan, resizeChan, remote, execLocal, execLog>>
    /\ UNCHANGED execKept

\* handleInput: the next ExecInput of the input channel.
TakeInput ==
    /\ Alive
    /\ execPc.handleInput = "range"
    /\ inputChan.buf # <<>>
    /\ inputChan' = [inputChan EXCEPT !.buf = Tail(@)]
    /\ execLocal' = [execLocal EXCEPT !.in = Head(inputChan.buf)]
    /\ execPc' = [execPc EXCEPT !.handleInput = IF Head(inputChan.buf).kind = "Input"
                                                THEN "write" ELSE "resize"]
    /\ UNCHANGED <<stream, outputChan, errChan, resizeChan, remote, execLog>>
    /\ UNCHANGED execKept

\* handleInput: the input channel is closed and empty; the deferred
\* close(sizeQueue.resizeChan) and writer.Close() run.
InputDone ==
    /\ Alive
    /\ execPc.handleInput = "range"
    /\ inputChan.buf = <<>>
    /\ inputChan.closed
    /\ resizeChan' = [resizeChan EXCEPT !.closed = TRUE]
    /\ execPc' = [execPc EXCEPT !.handleInput = "done"]
    /\ UNCHANGED <<stream, inputChan, outputChan, errChan, remote, execLocal, execLog>>
    /\ UNCHANGED execKept

\* handleInput: writer.Write(in.Data). The pipe hands the bytes over when the
\* exec call reads its stdin, which it does only while it is running.
WriteStdin ==
    /\ Alive
    /\ execPc.handleInput = "write"
    /\ execPc.handler = "stream"
    /\ remote' = [remote EXCEPT !.stdin = Append(@, execLocal.in.data)]
    /\ execPc' = [execPc EXCEPT !.handleInput = "range"]
    /\ UNCHANGED <<stream, inputChan, outputChan, errChan, resizeChan, execLocal, execLog>>
    /\ UNCHANGED execKept

\* handleInput: sizeQueue.resizeChan <- TerminalSize{...}.
PushResize ==
    /\ Alive
    /\ execPc.handleInput = "resize"
    /\ Len(resizeChan.buf) < ChanCap
    /\ resizeChan' = [resizeChan EXCEPT !.buf = Enqueue(@, execLocal.in.data)]
    /\ execPc' = [execPc EXCEPT !.handleInput = "range"]
    /\ UNCHANGED <<stream, inputChan, outputChan, errChan, remote, execLocal, execLog>>
    /\ UNCHANGED execKept

\* terminalSizeQueue.Next, pulled by the exec call when the session has a TTY.
NextSize ==
    /\ Alive
    /\ execPc.handler = "stream"
    /\ execLocal.init.tty
    /\ resizeChan.buf # <<>>
    /\ resizeChan' = [resizeChan EXCEPT !.buf = Tail(@)]
    /\ remote' = [remote EXCEPT !.sizes = @ + 1]
    /\ UNCHANGED <<execPc, stream, inputChan, outputChan, errChan, execLocal, execLog>>
    /\ UNCHANGED execKept

\* handleOutput: reader.Read(buf) returns the next chunk the exec call wrote to
\* the pipe of stream s. Nothing closes the pipe's writer, so Read never
\* returns an error and the loop has no other way out.
ReadOutput(s) ==
    /\ Alive
    /\ execPc[s] = "read"
    /\ execPc.handler = "stream"
    /\ remote[s] # <<>>
    /\ remote' = [remote EXCEPT ![s] = Tail(@)]
    /\ execLocal' = [execLocal EXCEPT !.data[s] = Head(remote[s])]
    /\ execLog' = [execLog EXCEPT !.read[s] = Append(@, Head(remote[s]))]
    /\ execPc' = [execPc EXCEPT ![s] = "emit"]
    /\ UNCHANGED <<stream, inputChan, outputChan, errChan, resizeChan>>
    /\ UNCHANGED execKept

\* handleOutput: output <- ExecOutput{Type: ExecOutputData}. A send on the
\* closed channel panics.
EmitOutput(s) ==
    /\ Alive
    /\ execPc[s] = "emit"
    /\ IF outputChan.closed
       THEN /\ execLog' = [execLog EXCEPT !.panicked = TRUE]
            /\ UNCHANGED <<outputChan, execPc>>
       ELSE /\ Len(outputChan.buf) < ChanCap
            /\ outputChan' = [outputChan EXCEPT !.buf = Enqueue(@, [type |-> "Data",
                                  stream |-> s, data |-> execLocal.data[s], code |-> 0])]
            /\ execPc' = [execPc EXCEPT ![s] = "read"]
            /\ UNCHANGED execLog
    /\ UNCHANGED <<stream, inputChan, errChan, resizeChan, remote, execLocal>>
    /\ UNCHANGED execKept

\* The client closes its sending side after its last frame.
ClientClose ==
    /\ Alive
    /\ execPc.handler \notin {"recvInit", "done"}
    /\ stream.toSend = <<>>
    /\ ~stream.halfClosed
    /\ stream' = [stream EXCEPT !.halfClosed = TRUE]
    /\ UNCHANGED <<execPc, inputChan, outputChan, errChan, resizeChan, remote, execLocal,
                   execLog>>
    /\ UNCHANGED execKept

\* The stream's context is cancelled (the client went away).
Cancel ==
    /\ Alive
    /\ execPc.handler \notin {"recvInit", "done"}
    /\ ~stream.cancelled
    /\ stream' = [stream EXCEPT !.cancelled = TRUE]
    /\ UNCHANGED <<execPc, inputChan, outputChan, errChan, resizeChan, remote, execLocal,
                   execLog>>
    /\ UNCHANGED execKept

\* A step of the session itself or of its client.
SessionStep ==
    \/ \E first \in FirstFrames, script \in Scripts, pf \in ExecFaults :
           RecvInit(first, script, pf)
    \/ \E outcome \in {"pod", "none", "error"}, out \in Outputs : ListPods(outcome, out)
    \/ \E err \in {"nil", "command failed", "context canceled"} : StreamReturn(err)
    \/ SendErrorFrame
    \/ SendExitFrame
    \/ CloseOutput
    \/ HandlerReturn
    \/ RecvFrame
    \/ RecvFails
    \/ PushInput
    \/ SendFrame
    \/ SendDone
    \/ TakeInput
    \/ InputDone
    \/ WriteStdin
    \/ PushResize
    \/ NextSize
    \/ \E s \in {"stdout", "stderr"} : ReadOutput(s)
    \/ \E s \in {"stdout", "stderr"} : EmitOutput(s)
    \/ ClientClose
    \/ Cancel

NextExec ==
    \/ \E body \in CreatedBodies : ConsumeCreated(body)
    \/ SessionStep

SpecExec == Init /\ [][NextExec]_vars

(***************************************************************************)
(* Properties of the exec bridge (SpecExec).                               *)
(***************************************************************************)
ExitFrames == {i \in 1..Len(stream.sent) : stream.sent[i].type = "Exit"}

HandlerReturned == stream.status # ""

\* C21 (as claimed): in a session whose cluster-side exec call started and whose
\* client keeps receiving, at most one Exit frame is sent, no frame is sent
\* after it, and when the handler has returned exactly one was sent.
C21_ExactlyOneExitThenClosed ==
    (remote.started /\ ~stream.cancelled) =>
        /\ Cardinality(ExitFrames) <= 1
        /\ \A i \in ExitFrames : i = Len(stream.sent)
        /\ HandlerReturned => Cardinality(ExitFrames) = 1

ExecMadeCall(name) == \E i \in 1..Len(execLog.calls) : execLog.calls[i] = name

FirstFrameSeen == execPc.handler # "recvInit" /\ execLocal.init.kind # ""

\* C22: when the first client frame is not an Init frame, or its instance_id
\* is 0, or its command is empty, the stream is closed with INVALID_ARGUMENT
\* and no store lookup, pod listing or cluster exec call is made.
C22_BadInitIsInvalidArgument ==
    (/\ FirstFrameSeen
     /\ \/ execLocal.init.kind # "Init"
        \/ execLocal.init.instance_id = 0
        \/ Len(execLocal.init.command) = 0)
    => /\ stream.status = "INVALID_ARGUMENT"
       /\ execPc.handler = "done"
       /\ execLog.calls = <<>>
       /\ ~remote.started

C22_Witness ==
    /\ execLocal.init = InitFrame(1, <<>>, FALSE)
    /\ RowsOf(instance, 1) # {}
    /\ stream.status = "INVALID_ARGUMENT"

WellFormedInit ==
    /\ FirstFrameSeen
    /\ execLocal.init.kind = "Init"
    /\ execLocal.init.instance_id # 0
    /\ Len(execLocal.init.command) > 0

\* C23: when the Init frame names an instance_id that has no Instance row (and
\* the store answers the lookup), the stream is closed with NOT_FOUND and no
\* pod listing or cluster exec call is made.
C23_MissingInstanceIsNotFound ==
    (/\ WellFormedInit
     /\ RowsOf(instance, execLocal.init.instance_id) = {}
     /\ ~execLog.storeFailed)
    => /\ stream.status = "NOT_FOUND"
       /\ execPc.handler = "done"
       /\ execLog.calls = <<"InstanceRepo.GetResource">>
       /\ ~remote.started

C23_Witness ==
    /\ execLocal.init = InitFrame(2, <<"sh">>, FALSE)
    /\ RowsOf(instance, 1) # {}
    /\ stream.status = "NOT_FOUND"

\* C24 (as claimed): when the instance exists and the pod list finds no pod for
\* it, the stream is closed with NOT_FOUND and no cluster-side exec channel is
\* opened.
C24_MissingPodIsNotFound ==
    (/\ WellFormedInit
     /\ HandlerReturned
     /\ execLocal.err = "pod not found")
    => /\ stream.status = "NOT_FOUND"
       /\ ~ExecMadeCall("Pods.Exec")

DataOf(seq) == [i \in 1..Len(seq) |-> seq[i].data]

\* The bytes of the Input frames among client frames, in order.
InputData(frames) == DataOf(SelectSeq(frames, LAMBDA f : f.kind = "Input"))

\* The bytes of stream s among the frames sent to the client, in order.
SentData(s) ==
    DataOf(SelectSeq(stream.sent, LAMBDA f :
               f.type = "Output" /\ f.stream = (IF s = "stderr" THEN "STDERR" ELSE "STDOUT")))

\* The bytes of stream s waiting in the output channel, in order.
QueuedData(s) ==
    DataOf(SelectSeq(outputChan.buf, LAMBDA o : o.type = "Data" /\ o.stream = s))

\* C25: within one session the bytes written to the cluster-side stdin, then
\* those handleInput holds, those in the input channel, the frame the input
\* goroutine holds and the frames not yet received are exactly the client's
\* Input frames in the order sent; and while the client keeps receiving, for
\* each of stdout and stderr the bytes sent to the client, then those in the
\* output channel and the chunk the reader holds are exactly the chunks read
\* from the cluster, in the order read.
C25_FramesKeepOrder ==
    /\ remote.stdin
         \o (IF execPc.handleInput = "write" THEN <<execLocal.in.data>> ELSE <<>>)
         \o InputData(inputChan.buf)
         \o (IF execPc.recv = "push" THEN InputData(<<execLocal.req>>) ELSE <<>>)
         \o InputData(stream.toSend)
       = InputData(stream.script)
    /\ ~stream.cancelled =>
          \A s \in {"stdout", "stderr"} :
              SentData(s) \o QueuedData(s)
                 \o (IF execPc[s] = "emit" THEN <<execLocal.data[s]>> ELSE <<>>)
              = execLog.read[s]

C25_Witness ==
    /\ remote.stdin = <<"a", "b">>
    /\ SentData("stdout") = <<"x", "y">>
    /\ ~stream.cancelled

\* The goroutines a session started.
Started == {g \in DOMAIN execPc : execPc[g] # "off"}

\* C26 (as claimed): once a session whose context was cancelled or whose
\* stream was closed can take no further step (and did not panic), the cluster-side call has
\* returned, the ExecContainer handler has returned and every goroutine of the
\* session, the stdout and stderr readers included, has finished.
C26_SessionTerminates ==
    (/\ remote.started
     /\ Alive
     /\ stream.cancelled \/ stream.halfClosed \/ HandlerReturned
     /\ ~ENABLED SessionStep)
    => /\ HandlerReturned
       /\ \A g \in Started : execPc[g] = "done"

(***************************************************************************)
(* ListResources: the field mask applied to each returned item.            *)
(***************************************************************************)
maskKept == <<instance, instance_spec, instance_logs, namespaces, deployments, queue, msgs,
              last, instance_network, services, ingresses, configMaps, lbPorts,
              nextAvailablePort, rpc, lastEl, resp, served, preOpen, handedOut,
              goroutines, entered, execPc, stream, inputChan, outputChan, errChan,
              resizeChan, remote, execLocal, execLog, patchVars, loopVars, quicVars>>

\* The fields of v1.Resource and their zero values (&v1.Resource{}).
ZeroResource == [instance_id |-> 0, name |-> "", user_id |-> "", type |-> "",
                 created_at |-> Nil, updated_at |-> Nil]

\* The items ListResources builds from store rows.
Resources == {[instance_id |-> 1, name |-> "vm-a", user_id |-> "tenantA", type |-> "VM",
               created_at |-> Ptr(100), updated_at |-> Ptr(200)],
              [instance_id |-> 2, name |-> "", user_id |-> "tenantB", type |-> "CONTAINER",
               created_at |-> Ptr(300), updated_at |-> Ptr(300)]}

\* Field mask paths a client may send; "status" is not a field of the message.
Paths == {"instance_id", "instanceId", "name", "user_id", "userId", "type", "created_at",
          "createdAt", "updated_at", "updatedAt", "status"}

\* in.GetFieldMask(): absent, or a list of paths.
Masks == {Nil} \cup {Ptr(paths) : paths \in UNION {[1..n -> Paths] : n \in 0..MaxPaths}}

\* The field a path of the switch selects, "" for the default case.
FieldOf(path) ==
    IF path \in {"instance_id", "instanceId"} THEN "instance_id"
    ELSE IF path = "name" THEN "name"
    ELSE IF path \in {"user_id", "userId"} THEN "user_id"
    ELSE IF path = "type" THEN "type"
    ELSE IF path \in {"created_at", "createdAt"} THEN "created_at"
    ELSE IF path \in {"updated_at", "updatedAt"} THEN "updated_at"
    ELSE ""

RECURSIVE CopyPaths(_, _, _)
\* The loop over mask.GetPaths(): each path copies its field from in to out.
CopyPaths(in, paths, out) ==
    IF paths = <<>> THEN [err |-> "", out |-> Ptr(out)]
    ELSE IF FieldOf(Head(paths)) = "" THEN [err |-> "INVALID_FIELD_MASK", out |-> Nil]
    ELSE CopyPaths(in, Tail(paths),
                   [out EXCEPT ![FieldOf(Head(paths))] = in[FieldOf(Head(paths))]])

applyResourceFieldMask_Identity(in, mask) == [err |-> "", out |-> in]

applyResourceFieldMask(in, mask) ==
    IF in = Nil THEN [err |-> "INVALID_ARGUMENT", out |-> Nil]
    ELSE IF mask = Nil \/ Len(mask[1]) = 0 THEN [err |-> "", out |-> in]
    ELSE CopyPaths(in[1], mask[1], ZeroResource)

\* The item and the mask of one ListResources call.
InitMask ==
    /\ InitBase
    /\ fieldMask \in {[NoMasking EXCEPT !.in = Ptr(r), !.mask = mk] :
                          r \in Resources, mk \in Masks}

\* ListResources: the item goes through applyResourceFieldMask.
ApplyFieldMask ==
    /\ ~fieldMask.applied
    /\ fieldMask' = [fieldMask EXCEPT
                        !.out = applyResourceFieldMask(fieldMask.in, fieldMask.mask).out,
                        !.err = applyResourceFieldMask(fieldMask.in, fieldMask.mask).err,
                        !.applied = TRUE]
    /\ UNCHANGED maskKept

NextMask == ApplyFieldMask

SpecMask == InitMask /\ [][NextMask]_vars

\* The fields a mask lists, by either spelling of a path.
Listed(paths) ==
    {f \in DOMAIN ZeroResource : \E i \in 1..Len(paths) : FieldOf(paths[i]) = f}

OnlyValidPaths(paths) == \A i \in 1..Len(paths) : paths[i] # "status"

\* C27: for a field mask with only valid paths the returned item has the
\* source value in every listed field and the zero value in every other
\* field; an empty or absent mask returns the item with all its fields.
C27_MaskKeepsListedZeroesRest ==
    fieldMask.applied =>
        IF fieldMask.mask = Nil \/ fieldMask.mask = Ptr(<<>>)
        THEN fieldMask.err = "" /\ fieldMask.out = fieldMask.in
        ELSE OnlyValidPaths(fieldMask.mask[1]) =>
                /\ fieldMask.err = ""
                /\ fieldMask.out # Nil
                /\ \A f \in DOMAIN ZeroResource :
                       fieldMask.out[1][f] = IF f \in Listed(fieldMask.mask[1])
                                             THEN fieldMask.in[1][f]
                                             ELSE ZeroResource[f]

C27_Witness ==
    /\ fieldMask.applied
    /\ fieldMask.mask = Ptr(<<"name", "userId">>)
    /\ fieldMask.out = Ptr([ZeroResource EXCEPT !.name = "vm-a", !.user_id = "tenantA"])

(***************************************************************************)
(* Ordering of the reconciler's and the port engine's steps.               *)
(***************************************************************************)
CreateSteps == <<"InstanceRepo.CreateInstance", "K8sRepo.CreateInstance", "AuditRepo.CreateAudit">>

IsPrefix(a, b) == Len(a) <= Len(b) /\ \A i \in 1..Len(a) : a[i] = b[i]

\* C28: CreateInstance calls the store, then the cluster, then the audit store,
\* in this order: the cluster only after the store insert newly succeeded,
\* the audit store only after the cluster call succeeded, and a cluster failure
\* is returned as an error with no audit record appended.
C28_StoreThenClusterThenAudit ==
    Ran =>
        /\ IsPrefix(last.calls, CreateSteps)
        /\ MadeCall("K8sRepo.CreateInstance") => last.storeErr = "nil"
        /\ MadeCall("AuditRepo.CreateAudit") =>
               Workloads(last.body.event.instance_id) # {}
        /\ (MadeCall("K8sRepo.CreateInstance") /\ ~MadeCall("AuditRepo.CreateAudit")) =>
               /\ last.err \notin {"nil", "none"}
               /\ last.auditAppended = 0

C28_Witness ==
    /\ Ran
    /\ last.calls = <<"InstanceRepo.CreateInstance", "K8sRepo.CreateInstance">>
    /\ last.err = "k8s create failed"
    /\ RowsOf(instance, last.body.event.instance_id) # {}
    /\ instance_logs = <<>>

\* The positions of the calls named name among the calls of the latest element.
CallsAt(name) == {i \in 1..Len(lastEl.calls) : lastEl.calls[i] = name}

FailedOpen(protocols) ==
    /\ ElementRan
    /\ lastEl.open
    /\ ~Rejected(lastEl.config)
    /\ DefaultProtocol(lastEl.config.protocol) \in protocols
    /\ ~lastEl.result.success

\* The calls of the compensation that removes the ConfigMap entry and the
\* load-balancer port: those after K8sRepo.DeleteTCPUDPConfigMapEntry was entered.
Compensating(name) ==
    {i \in CallsAt(name) : \E c \in CallsAt("K8sRepo.DeleteTCPUDPConfigMapEntry") : c < i}

\* C29 (as claimed): when a TCP/UDP open fails after its service was created,
\* the compensation removes the load-balancer port first, then the ConfigMap
\* entry, and deletes the service last.
C29_TcpRollbackInReverseOrder ==
    (FailedOpen({"TCP", "UDP"}) /\ CallsAt("Services.Delete") # {}) =>
        /\ \A l \in Compensating("LBService.Get") \cup Compensating("LBService.Update") :
             \A c \in Compensating("ConfigMaps.Get") \cup Compensating("ConfigMaps.Update") :
                 l < c
        /\ \A d \in CallsAt("Services.Delete") :
             \A c \in CallsAt("K8sRepo.DeleteTCPUDPConfigMapEntry") : c < d

\* C30 (as claimed): when an HTTP open fails after its ingress was created, the
\* compensation deletes the ingress first and the service second.
C30_HttpRollbackIngressFirst ==
    (FailedOpen({"HTTP"}) /\ CallsAt("NetworkRepo.CreateNetworkBinding") # {}) =>
        /\ CallsAt("Ingresses.Delete") # {}
        /\ CallsAt("Services.Delete") # {}
        /\ \A g \in CallsAt("Ingresses.Delete") : \A d \in CallsAt("Services.Delete") : g < d

(***************************************************************************)
(* Closing an existing binding (SpecPort).                                 *)
(***************************************************************************)
CloseCalls == {"K8sRepo.DeleteService", "K8sRepo.DeleteIngress",
               "K8sRepo.DeleteTCPUDPConfigMapEntry", "NetworkRepo.DeleteNetworkBinding",
               "AuditRepo.CreateAudit"}

\* The calls closePort itself makes, in the order it makes them.
TopLevel(calls) == SelectSeq(calls, LAMBDA c : c \in CloseCalls)

CloseSteps(b, rowDeleted) ==
    <<"K8sRepo.DeleteService">>
    \o (IF b.ingress_name # Nil THEN <<"K8sRepo.DeleteIngress">> ELSE <<>>)
    \o (IF b.external_port # Nil THEN <<"K8sRepo.DeleteTCPUDPConfigMapEntry">> ELSE <<>>)
    \o <<"NetworkRepo.DeleteNetworkBinding">>
    \o (IF rowDeleted THEN <<"AuditRepo.CreateAudit">> ELSE <<>>)

\* The step closes a binding that the lookup found.
ClosesBinding ==
    /\ ElementStep
    /\ ~lastEl'.open
    /\ ~Rejected(lastEl'.config)
    /\ BindingRows(instance_network, lastEl'.instance_id, lastEl'.config.port) # {}
    /\ Len(lastEl'.calls) > 2

ClosedBinding ==
    instance_network[CHOOSE i \in BindingRows(instance_network, lastEl'.instance_id,
                                              lastEl'.config.port) : TRUE]

RowDeleted == BindingRows(instance_network', lastEl'.instance_id, lastEl'.config.port) = {}

PortClosedRecord ==
    [instance_id |-> lastEl'.instance_id, log_type |-> "PORT_CLOSED",
     message |-> "Port " \o FormatInt(lastEl'.config.port) \o " closed"]

\* C31: closing a binding the lookup found calls delete service, delete ingress
\* (iff ingress_name is set), remove ConfigMap entry and load-balancer port (iff
\* external_port is set), delete row, append PORT_CLOSED, in this order and
\* whatever cluster deletion fails; the close succeeds iff the row was deleted,
\* and when the row deletion fails no audit call is made and no record appended.
C31_CloseOrderAndTolerance ==
    [][ClosesBinding =>
          /\ TopLevel(lastEl'.calls) = CloseSteps(ClosedBinding, RowDeleted)
          /\ lastEl'.result.success <=> RowDeleted
          /\ ~RowDeleted => /\ instance_logs' = instance_logs
                             /\ lastEl'.result.error = "db error"
          /\ RowDeleted => \/ instance_logs' = Append(instance_logs, PortClosedRecord)
                            \/ instance_logs' = instance_logs]_vars

\* A close succeeded although a cluster deletion failed.
C31_Witness ==
    /\ ElementRan
    /\ ~lastEl.open
    /\ lastEl.result.success
    /\ lastEl.failed # {}
    /\ ElementMadeCall("K8sRepo.DeleteTCPUDPConfigMapEntry")
    /\ Len(instance_logs) > 0
    /\ instance_logs[Len(instance_logs)].log_type = "PORT_CLOSED"

(***************************************************************************)
(* Concurrent opens against the shared ConfigMaps and load-balancer        *)
(* Service (SpecConc).                                                     *)
(***************************************************************************)
\* The call of goroutine p has finished and is about to return nil.
Succeeded(p) == goroutines[p].pc = "done" /\ goroutines[p].err = "nil"

\* The ConfigMap entry CreateServiceForTCPUDP writes for the call of p.
EntryOf(p) ==
    [key |-> FormatInt(goroutines[p].externalPort),
     value |-> UserOf(1) \o "/" \o generateServiceName(FormatInt(1), goroutines[p].port)
                   \o ":" \o FormatInt(goroutines[p].port)]

Exposed(p) ==
    /\ EntryOf(p) \in configMaps[ConfigMapNameOf(goroutines[p].protocol)]
    /\ HasPort(lbPorts, goroutines[p].externalPort, goroutines[p].protocol)

\* C32 (as claimed): when two concurrent TCP/UDP opens both succeed, the
\* ConfigMap holds the entry of each and the load-balancer Service the port of
\* each.
C32_BothSuccessfulOpensKeepEntries ==
    \A p, q \in Goroutines :
        (p # q /\ Succeeded(p) /\ Succeeded(q)) => Exposed(p) /\ Exposed(q)

(***************************************************************************)
(* The key of a binding (SpecPort).                                        *)
(***************************************************************************)
\* The enabled bindings of the element's (instance_id, port) whose protocol is
\* not the one the element asks for.
UnderOtherProtocol(table, el) ==
    {i \in EnabledBindings(table, el.instance_id, el.config.port) :
        table[i].protocol # DefaultProtocol(el.config.protocol)}

\* C33: an open element whose (instance_id, port) has an enabled binding under
\* another protocol creates or changes no cluster object, leaves the binding
\* rows as they are and succeeds with the access_url of that binding (or fails
\* with the store's error when one of the two reads before the check fails).
C33_BindingsKeyedByInstanceAndPort ==
    [][(/\ ElementStep
        /\ lastEl'.open
        /\ ~Rejected(lastEl'.config)
        /\ UnderOtherProtocol(instance_network, lastEl') # {})
       => /\ ClusterUnchanged
          /\ instance_network' = instance_network
          /\ lastEl'.result.success <=> lastEl'.result.error # "db error"
          /\ lastEl'.result.success =>
                /\ \A i \in UnderOtherProtocol(instance_network, lastEl') :
                       lastEl'.result.access_url = instance_network[i].access_url
                /\ lastEl'.calls = <<"InstanceRepo.GetResource",
                                     "NetworkRepo.GetNetworkBinding">>]_vars

\* A TCP open of a port whose enabled binding is an HTTP one succeeded.
C33_Witness ==
    /\ ElementRan
    /\ lastEl.open
    /\ lastEl.result.success
    /\ lastEl.config.protocol = "TCP"
    /\ lastEl.calls = <<"InstanceRepo.GetResource", "NetworkRepo.GetNetworkBinding">>
    /\ \E i \in UnderOtherProtocol(instance_network, lastEl) :
           /\ instance_network[i].protocol = "HTTP"
           /\ lastEl.result.access_url = instance_network[i].access_url

(***************************************************************************)
(* The completion flow of an exec session (SpecExec).                      *)
(***************************************************************************)
\* What the completion flow puts on the output queue for the error err of the
\* exec call.
CompletionFor(err) ==
    IF err # "nil" THEN <<ErrorOutput(err), ExitOutput(1)>> ELSE <<ExitOutput(0)>>

\* The frames of the completion flow that reached the client.
CompletionSent == SelectSeq(stream.sent, LAMBDA f : f.type \in {"Error", "Exit"})

\* C34: once the exec call has returned, the completion flow puts on the output
\* queue an Error frame iff the call's error is not nil, and then an Exit frame
\* with code 0 for nil and 1 otherwise, nothing else and in this order; the
\* client receives these frames in the same order.
C34_ErrorThenExit ==
    /\ (remote.started /\ execPc.handler \in {"sendError", "sendExit", "close", "wait", "done"})
          => /\ IsPrefix(execLog.completion, CompletionFor(execLocal.err))
             /\ execPc.handler = "sendError" => execLog.completion = <<>>
             /\ execPc.handler = "sendExit" =>
                    Len(execLog.completion) = Len(CompletionFor(execLocal.err)) - 1
             /\ execPc.handler \in {"close", "wait", "done"} =>
                    execLog.completion = CompletionFor(execLocal.err)
             /\ IsPrefix(CompletionSent, [i \in 1..Len(execLog.completion) |->
                                            ToResponse(execLog.completion[i])])
    /\ (~remote.started \/ execPc.handler = "stream") => execLog.completion = <<>>

\* The exec call failed and the client received the Error frame and then the
\* Exit frame with code 1.
C34_Witness ==
    /\ remote.started
    /\ execLocal.err = "command failed"
    /\ execLog.completion = <<ErrorOutput("command failed"), ExitOutput(1)>>
    /\ CompletionSent = <<ToResponse(ErrorOutput("command failed")), ToResponse(ExitOutput(1))>>

(***************************************************************************)
(* The readers and the closed output queue (SpecExec).                     *)
(***************************************************************************)
\* The ExecOutputs on their way to the client, oldest first: those already
\* sent and those still in the output queue.
OutputOrder ==
    [i \in 1..Len(stream.sent) |-> stream.sent[i].type]
        \o [i \in 1..Len(outputChan.buf) |->
               IF outputChan.buf[i].type = "Data" THEN "Output" ELSE outputChan.buf[i].type]

\* C35 (as claimed): no reader sends on the output queue after ExecContainer
\* closed it (such a send panics), none is about to, and no Output frame
\* follows the Exit frame.
C35_NoSendAfterClose ==
    /\ ~execLog.panicked
    /\ outputChan.closed => \A s \in {"stdout", "stderr"} : execPc[s] # "emit"
    /\ \A i, j \in 1..Len(OutputOrder) :
           (OutputOrder[i] = "Exit" /\ i < j) => OutputOrder[j] # "Output"

(***************************************************************************)
(* Resize frames and the input flow (SpecExec).                            *)
(***************************************************************************)
\* The exec call is running: it reads its stdin and, with a TTY, pulls sizes.
Running == remote.started /\ execPc.handler = "stream"

\* C36 (as claimed): while the exec call is running, handleInput is never held
\* by a Resize frame: the size queue has room for it or the exec call pulls
\* from the queue, so the Input frames behind it reach stdin.
C36_ResizeNeverStallsInput ==
    (Alive /\ Running /\ execPc.handleInput = "resize")
        => (Len(resizeChan.buf) < ChanCap \/ ENABLED NextSize)

(***************************************************************************)
(* MQServer.Start's consumer loop step by step, with MQServer.Stop, the    *)
(* broker channel and the context. The broker and the client library are   *)
(* the environment: the broker keeps at most Prefetch deliveries of the     *)
(* channel unsettled, a settle call only fails on a channel that is closed *)
(* or breaks, and closing a channel returns its unsettled messages to the  *)
(* queue.                                                                  *)
(***************************************************************************)
loopKept == <<last, rpc, lastEl, resp, served, preOpen, goroutines, entered, execPc, stream,
              inputChan, outputChan, errChan, resizeChan, remote, execLocal, execLog,
              fieldMask, patchVars, quicVars>>

worldVars == <<instance, instance_spec, instance_logs, namespaces, deployments,
               instance_network, services, ingresses, configMaps, lbPorts,
               nextAvailablePort, handedOut>>

\* Without the Qos call: the broker default, no limit on unsettled deliveries.
Prefetch_Unset == MaxPublish

\* s.ch.Qos(1, 0, false)
Prefetch == 1

\* The message ids of a set, lowest first.
InOrderOfId(ids) ==
    CHOOSE seq \in [1..Cardinality(ids) -> ids] :
        \A i, j \in 1..Cardinality(ids) : i < j => seq[i] < seq[j]

\* The broker channel after it was closed, by Close or by a failure (err): the
\* delivery channel and the notification channel are closed, the latter after
\* the error was put on it.
ChannelClosed(ch, err) ==
    [ch EXCEPT !.open = FALSE, !.deliveriesClosed = TRUE, !.unacked = {},
               !.notify = IF ch.notify # "none" THEN ch.notify
                          ELSE IF err THEN "error" ELSE "closed"]

\* The queue after the broker took back the unsettled deliveries of a channel.
Requeued(q, ch) == InOrderOfId(ch.unacked) \o q

\* The broker hands the head of the queue to the consumer.
BrokerDeliver ==
    /\ amqpCh.open
    /\ ~amqpCh.tagCancelled
    /\ queue # <<>>
    /\ Cardinality(amqpCh.unacked) < Prefetch
    /\ msgs[Head(queue)].deliveries < MaxDeliveries
    /\ queue' = Tail(queue)
    /\ msgs' = [msgs EXCEPT ![Head(queue)].deliveries = @ + 1]
    /\ amqpCh' = [amqpCh EXCEPT !.unacked = @ \cup {Head(queue)},
                                !.deliveries = Append(@, Head(queue)),
                                !.delivered = Append(@, Head(queue))]
    /\ UNCHANGED <<mqServer, ctxDone, worldVars, loopKept>>

\* case d, ok := <-msgs with ok: s.processMessage(ctx, d) starts.
Receive ==
    /\ mqServer.pc = "select"
    /\ amqpCh.deliveries # <<>>
    /\ amqpCh' = [amqpCh EXCEPT !.deliveries = Tail(@)]
    /\ mqServer' = [mqServer EXCEPT !.pc = "handling", !.current = Head(amqpCh.deliveries),
                       !.trace = Append(@, [op |-> "start", id |-> Head(amqpCh.deliveries)])]
    /\ UNCHANGED <<queue, msgs, ctxDone, worldVars, loopKept>>

\* What a settle call that went through means for the message.
SettledFate(op) ==
    IF op = "ack" THEN "acked" ELSE IF op = "rejectRequeue" THEN "queued" ELSE "dropped"

\* processMessageBody for the delivery in hand: the handler, then the settle
\* call, which goes through (settles) or returns an error that is only logged.
Handle(f, settles) ==
    LET id == mqServer.current
        r == ConsumeMqMessage(World, msgs[id].body, f)
        op == processMessageBody(r.err)[1]
    IN /\ mqServer.pc = "handling"
       /\ f.ack = "ok"
       /\ settles => amqpCh.open
       /\ Becomes(r.w)
       /\ IF settles
          THEN /\ amqpCh' = [amqpCh EXCEPT !.unacked = @ \ {id}]
               /\ msgs' = [msgs EXCEPT ![id].fate = SettledFate(op)]
               /\ queue' = IF op = "rejectRequeue" THEN <<id>> \o queue ELSE queue
               /\ mqServer' = [mqServer EXCEPT !.pc = "select", !.current = 0,
                     !.trace = Append(@, [op |-> IF op = "ack" THEN "ack" ELSE "reject",
                                          id |-> id])]
          ELSE /\ amqpCh' = IF amqpCh.open THEN ChannelClosed(amqpCh, TRUE) ELSE amqpCh
               /\ queue' = IF amqpCh.open THEN Requeued(queue, amqpCh) ELSE queue
               /\ msgs' = msgs
               /\ mqServer' = [mqServer EXCEPT !.pc = "select", !.current = 0]
       /\ UNCHANGED <<ctxDone, loopKept>>

\* The loop returns from Start.
Returns(cause, result) ==
    [mqServer EXCEPT !.pc = "returned", !.cause = cause, !.result = result]

\* case d, ok := <-msgs with !ok: "MQ delivery channel closed", return nil.
ReceiveClosed ==
    /\ mqServer.pc = "select"
    /\ amqpCh.deliveries = <<>>
    /\ amqpCh.deliveriesClosed
    /\ mqServer' = Returns("msgs", "nil")
    /\ UNCHANGED <<queue, msgs, amqpCh, ctxDone, worldVars, loopKept>>

\* case <-ctx.Done(): s.ch.Cancel(s.consumerTag, false), return nil.
OnCtxDone ==
    /\ mqServer.pc = "select"
    /\ ctxDone
    /\ amqpCh' = IF amqpCh.open THEN [amqpCh EXCEPT !.tagCancelled = TRUE] ELSE amqpCh
    /\ mqServer' = Returns("ctx", "nil")
    /\ UNCHANGED <<queue, msgs, ctxDone, worldVars, loopKept>>

\* case amqpErr := <-notifyClose: an error for a non-nil amqpErr, else nil.
OnNotifyClose ==
    /\ mqServer.pc = "select"
    /\ amqpCh.notify # "none"
    /\ mqServer' = Returns("notifyClose", IF amqpCh.notify = "error"
                                          THEN "mq channel closed: channel exception"
                                          ELSE "nil")
    /\ UNCHANGED <<queue, msgs, amqpCh, ctxDone, worldVars, loopKept>>

\* The application shuts down: the context of Start is cancelled.
CtxCancel ==
    /\ ~ctxDone
    /\ ctxDone' = TRUE
    /\ UNCHANGED <<queue, msgs, mqServer, amqpCh, worldVars, loopKept>>

\* MQServer.Stop, called by the application on shutdown from another
\* goroutine: Cancel the consumer tag, Close the channel.
Stop ==
    /\ ctxDone
    /\ ~mqServer.stopped
    /\ mqServer' = [mqServer EXCEPT !.stopped = TRUE]
    /\ amqpCh' = IF amqpCh.open
                 THEN ChannelClosed([amqpCh EXCEPT !.tagCancelled = TRUE], FALSE)
                 ELSE amqpCh
    /\ queue' = IF amqpCh.open THEN Requeued(queue, amqpCh) ELSE queue
    /\ UNCHANGED <<msgs, ctxDone, worldVars, loopKept>>

\* The broker or the connection closes the channel with an error.
BrokerCloses ==
    /\ amqpCh.open
    /\ amqpCh' = ChannelClosed(amqpCh, TRUE)
    /\ queue' = Requeued(queue, amqpCh)
    /\ UNCHANGED <<msgs, mqServer, ctxDone, worldVars, loopKept>>

\* The client library drops the deliveries nobody received from a closed channel.
DropInflight ==
    /\ amqpCh.deliveriesClosed
    /\ amqpCh.deliveries # <<>>
    /\ amqpCh' = [amqpCh EXCEPT !.deliveries = <<>>]
    /\ UNCHANGED <<queue, msgs, mqServer, ctxDone, worldVars, loopKept>>

NextLoop ==
    \/ \E body \in Bodies : Publish(body)
    \/ BrokerDeliver
    \/ Receive
    \/ \E f \in Faults, settles \in BOOLEAN : Handle(f, settles)
    \/ ReceiveClosed
    \/ OnCtxDone
    \/ OnNotifyClose
    \/ CtxCancel
    \/ Stop
    \/ BrokerCloses
    \/ DropInflight

SpecLoop == Init /\ [][NextLoop]_vars

(***************************************************************************)
(* Properties of the consumer loop (SpecLoop).                             *)
(***************************************************************************)
Starts == SelectSeq(mqServer.trace, LAMBDA e : e.op = "start")

\* C37: every handler start but the first directly follows the acknowledgement
\* or rejection of the delivery started before it, the handlers start in the
\* order of the broker's deliveries, and at most one delivery is unsettled.
C37_OneDeliveryAtATime ==
    /\ \A i \in 2..Len(mqServer.trace) :
           mqServer.trace[i].op = "start" =>
               /\ mqServer.trace[i - 1].op \in {"ack", "reject"}
               /\ \E j \in 1..(i - 2) : /\ mqServer.trace[j].op = "start"
                                        /\ mqServer.trace[j].id = mqServer.trace[i - 1].id
                                        /\ \A k \in (j + 1)..(i - 2) :
                                               mqServer.trace[k].op # "start"
    /\ IsPrefix([i \in 1..Len(Starts) |-> Starts[i].id], amqpCh.delivered)
    /\ mqServer.pc = "handling" => mqServer.current \in amqpCh.unacked \/ ~amqpCh.open

\* Two deliveries were handled one after the other, the first one rejected
\* with requeue.
C37_Witness ==
    /\ Len(Starts) = 2
    /\ Len(mqServer.trace) = 4
    /\ mqServer.trace[2].op = "reject"
    /\ mqServer.trace[4].op \in {"ack", "reject"}

\* Every delivery the broker handed to the consumer was received by the loop.
Drained == Len(Starts) = Len(amqpCh.delivered)

\* C38 (as claimed): when the loop has returned because its context was
\* cancelled (and Stop has run), it returned nil, the consumer tag is cancelled,
\* the delivery channel was drained and the broker channel is closed; when the
\* channel was closed with an error and the context was not cancelled, the
\* loop returns an error that says so.
C38_CleanExit ==
    /\ (mqServer.pc = "returned" /\ mqServer.cause = "ctx" /\ mqServer.stopped
            /\ amqpCh.notify # "error")
          => /\ mqServer.result = "nil"
             /\ amqpCh.tagCancelled
             /\ ~amqpCh.open
             /\ Drained
    /\ (mqServer.pc = "returned" /\ ~ctxDone /\ amqpCh.notify = "error")
          => mqServer.result = "mq channel closed: channel exception"

(***************************************************************************)
(* grpcquic.Listener.Accept, called in a loop by the RPC server, with the  *)
(* QUIC clients as the environment.                                        *)
(***************************************************************************)
quicKept == <<instance, instance_spec, instance_logs, namespaces, deployments, queue, msgs,
              last, instance_network, services, ingresses, configMaps, lbPorts,
              nextAvailablePort, rpc, lastEl, resp, served, preOpen, handedOut,
              goroutines, entered, execVars, fieldMask, patchVars, loopVars>>

\* newConn(conn, stream): the connection and its first stream as one Conn.
newConn(conn, firstStream) == [conn |-> conn, stream |-> firstStream]

AcceptResult_NoClose(connErr, conn, streamErr) ==
    IF connErr # "nil" THEN [conn |-> Nil, err |-> connErr, closed |-> Nil]
    ELSE IF streamErr # "nil" THEN [conn |-> Nil, err |-> streamErr, closed |-> Nil]
    ELSE [conn |-> Ptr(newConn(conn, 1)), err |-> "nil", closed |-> Nil]

\* What Accept returns, and the code it closes the connection with, for the
\* outcomes of ql.Accept and conn.AcceptStream.
AcceptResult(connErr, conn, streamErr) ==
    IF connErr # "nil" THEN [conn |-> Nil, err |-> connErr, closed |-> Nil]
    ELSE IF streamErr # "nil" THEN [conn |-> Nil, err |-> streamErr, closed |-> Ptr(0)]
    ELSE [conn |-> Ptr(newConn(conn, 1)), err |-> "nil", closed |-> Nil]

\* A client completes the QUIC handshake; a silent one will never open a
\* stream and keeps its connection alive.
Handshake(c, silent) ==
    /\ listener.open
    /\ clients[c].phase = "away"
    /\ clients' = [clients EXCEPT ![c] = [Away EXCEPT !.phase = "queued", !.silent = silent]]
    /\ listener' = [listener EXCEPT !.backlog = Append(@, c)]
    /\ UNCHANGED quicKept

\* A client opens its first stream.
OpenStream(c) ==
    /\ clients[c].phase \in {"queued", "accepting"}
    /\ ~clients[c].silent
    /\ ~clients[c].stream
    /\ ~clients[c].gone
    /\ clients' = [clients EXCEPT ![c].stream = TRUE]
    /\ UNCHANGED <<listener, quicKept>>

\* A client's connection ends before the listener has returned it.
Leave(c) ==
    /\ clients[c].phase \in {"queued", "accepting"}
    /\ ~clients[c].silent
    /\ ~clients[c].gone
    /\ clients' = [clients EXCEPT ![c].gone = TRUE]
    /\ UNCHANGED <<listener, quicKept>>

\* The RPC server calls Accept.
CallAccept ==
    /\ listener.pc = "idle"
    /\ listener' = [listener EXCEPT !.pc = "accept"]
    /\ UNCHANGED <<clients, quicKept>>

\* l.ql.Accept returns the next connection.
AcceptConn ==
    /\ listener.pc = "accept"
    /\ listener.backlog # <<>>
    /\ listener' = [listener EXCEPT !.pc = "stream", !.conn = Head(listener.backlog),
                                    !.backlog = Tail(@)]
    /\ clients' = [clients EXCEPT ![Head(listener.backlog)].phase = "accepting"]
    /\ UNCHANGED quicKept

\* l.ql.Accept returns an error: the listener was closed.
AcceptConnFails ==
    /\ listener.pc = "accept"
    /\ ~listener.open
    /\ listener' = [listener EXCEPT !.pc = "closed",
                       !.results = Append(@, AcceptResult("server closed", 0, "nil"))]
    /\ UNCHANGED <<clients, quicKept>>

\* conn.AcceptStream returns the client's first stream, or an error when the
\* connection has ended; Accept returns.
AcceptStream ==
    LET c == listener.conn
        r == AcceptResult("nil", c, IF clients[c].gone THEN "connection closed" ELSE "nil")
    IN /\ listener.pc = "stream"
       /\ clients[c].gone \/ clients[c].stream
       /\ listener' = [listener EXCEPT !.pc = "idle", !.conn = 0,
                                       !.results = Append(@, r),
                                       !.closedWith[c] = r.closed]
       /\ clients' = [clients EXCEPT ![c].phase = IF r.err = "nil" THEN "returned"
                                                  ELSE "closed"]
       /\ UNCHANGED quicKept

\* Listener.Close.
CloseListener ==
    /\ listener.open
    /\ listener' = [listener EXCEPT !.open = FALSE]
    /\ UNCHANGED <<clients, quicKept>>

\* A step of Accept itself.
AcceptStep == AcceptConn \/ AcceptConnFails \/ AcceptStream

NextQuic ==
    \/ \E c \in QuicClients, silent \in BOOLEAN : Handshake(c, silent)
    \/ \E c \in QuicClients : OpenStream(c)
    \/ \E c \in QuicClients : Leave(c)
    \/ CallAccept
    \/ AcceptConn
    \/ AcceptConnFails
    \/ AcceptStream
    \/ CloseListener

SpecQuic == Init /\ [][NextQuic]_vars

(***************************************************************************)
(* Properties of the QUIC listener (SpecQuic).                             *)
(***************************************************************************)
\* C39: every return of Accept is either an error without a connection or a
\* connection wrapped with its first stream and no error; the listener closes
\* a connection, with code 0, exactly when accepting its stream failed, and
\* such a connection is never returned.
C39_StreamAcceptFailureClosesConn ==
    /\ \A i \in 1..Len(listener.results) :
           \/ listener.results[i].conn = Nil /\ listener.results[i].err # "nil"
           \/ /\ listener.results[i].err = "nil"
              /\ listener.results[i].conn # Nil
              /\ listener.results[i].conn[1].stream = 1
              /\ clients[listener.results[i].conn[1].conn].phase = "returned"
    /\ \A c \in QuicClients :
           /\ clients[c].phase = "closed" <=> listener.closedWith[c] = Ptr(0)
           /\ clients[c].phase = "closed" =>
                  \A i \in 1..Len(listener.results) :
                      listener.results[i].conn # Nil => listener.results[i].conn[1].conn # c
           /\ clients[c].phase = "returned" =>
                  \E i \in 1..Len(listener.results) :
                      listener.results[i].conn = Ptr(newConn(c, 1))

\* One connection was closed with code 0 after its stream accept failed, and
\* another was returned with its stream.
C39_Witness ==
    /\ \E c \in QuicClients : clients[c].phase = "closed" /\ listener.closedWith[c] = Ptr(0)
    /\ \E i \in 1..Len(listener.results) : listener.results[i].err = "connection closed"
    /\ \E i \in 1..Len(listener.results) : listener.results[i].err = "nil"

\* C40 (as claimed): while a client that connected after a silent one waits
\* with its stream open, Accept is not held by the silent client: it can take a
\* step.
C40_SilentClientDoesNotBlockAccept ==
    (/\ listener.pc = "stream"
     /\ clients[listener.conn].silent
     /\ \E d \in QuicClients : /\ clients[d].phase = "queued"
                               /\ clients[d].stream
                               /\ ~clients[d].gone)
        => ENABLED AcceptStep

====
